---- MODULE Spec2Model ----
(***************************************************************************)
(* Model of the GLX backend of compton (src/src/opengl.c).                 *)
(*                                                                         *)
(* Two parts of the backend are modelled here:                             *)
(*   - the frame-age damage tracker, glx_paint_pre() with glx_set_clip();  *)
(*   - the pixmap/texture bridge, glx_bind_pixmap() and                    *)
(*     glx_release_pixmap().                                               *)
(* Each part has its own specification (SpecPaint, SpecBind) over the same *)
(* variables; the variables of the other part keep their initial value.    *)
(***************************************************************************)
EXTENDS Integers, Sequences, FiniteSets, TLC

(***************************************************************************)
(* Program constants (common.h, not part of src/).                         *)
(***************************************************************************)
CGLX_MAX_BUFFER_AGE == 5
OPENGL_MAX_DEPTH == 32
SWAPM_BUFFER_AGE == -1

(***************************************************************************)
(* Bounds of the model.                                                    *)
(***************************************************************************)
\* The screen is a row of NumPix pixels; a region is a set of pixels.
NumPix == 2
\* Ages reported by glXQueryDrawable range over 0..CGLX_MAX_BUFFER_AGE+AgeSlack.
AgeSlack == 2

\* X pixmap ids handed to glx_bind_pixmap are 1..NumPixmaps (0 is "no pixmap").
NumPixmaps == 2
\* GLX pixmap XIDs and GL texture names are drawn from 1..MaxHandles.
MaxHandles == 2

Pixels == 1..NumPix
\* Damage handed to glx_paint_pre: nothing, or one pixel-wide rectangle.
DamageRegs == {{}} \cup {{p} : p \in Pixels}
\* Values of ps->o.glx_swap_method the model runs with (glx_init rejects
\* values above CGLX_MAX_BUFFER_AGE): buffer-age, undefined, copy, exchange.
SwapMethods == {SWAPM_BUFFER_AGE, 0, 1, 2}
ReportedAges == 0..(CGLX_MAX_BUFFER_AGE + AgeSlack)
HistIdx == 0..(CGLX_MAX_BUFFER_AGE - 1)

VARIABLES
  \* ---- session options (ps->o) ----
  glx_swap_method,  \* ps->o.glx_swap_method
  glx_no_stencil,   \* ps->o.glx_no_stencil
  \* ---- damage tracker ----
  all_damage_last,  \* ps->all_damage_last[0..CGLX_MAX_BUFFER_AGE-1]
  preg,             \* *preg, the paint region, after the last glx_paint_pre
  gl_enabled,       \* GL capabilities currently enabled (glEnable/glDisable)
  \* ---- record of the last glx_paint_pre call ----
  paint_done,       \* a call has been made
  paint_in,         \* *preg on entry
  paint_age,        \* buffer_age before the "too high" test
  paint_hist,       \* all_damage_last on entry
  paint_read,       \* indices i of all_damage_last[i] read by the call
  \* ---- GLX session (ps->psglx) and backend option ----
  backend,          \* ps->o.backend
  fbconfigs,        \* ps->psglx->fbconfigs[0..OPENGL_MAX_DEPTH]
  has_texture_non_power_of_two,
  \* ---- one window's binding ----
  pptex_set,        \* *pptex != NULL
  ptex,             \* the glx_texture_t behind *pptex
  \* ---- objects held by the X server and the GL ----
  glxpixmaps,       \* live GLX pixmaps, as <<XID, source pixmap>>
  textures,         \* live texture names
  teximg,           \* GLX pixmap whose image is bound to the texture, or 0
  \* ---- record of the last glx_bind_pixmap / glx_release_pixmap call ----
  last,
  \* ---- the X server's FBConfigs and the comparator's results ----
  srv_cfgs,         \* what glXGetFBConfigs and glXGetFBConfigAttrib answer
  cmp_done,         \* glx_cmp_fbconfig has been applied to the candidates
  cmp_res,          \* cmp_res[<<a, b>>] = glx_cmp_fbconfig(a, b); 0 is NULL
  offer,            \* depth and config of the last glx_update_fbconfig_bydepth
  pcur,             \* glx_update_fbconfig: configs of the list gone through
  \* ---- session lifecycle ----
  glx_exists,       \* ps->glx_exists
  psglx_set,        \* ps->psglx != NULL
  context,          \* ps->psglx->context, 0 for NULL
  blur_passes,      \* ps->psglx->blur_passes[0..MAX_BLUR_PASS-1]
  glx_prog_win,     \* ps->glx_prog_win
  contexts,         \* live GLX contexts
  shaders,          \* live shader objects
  programs,         \* live program objects
  crashed,          \* the process has died in the middle of a call
  lc_numeric,       \* the LC_NUMERIC locale of the process
  slast,            \* record of the last lifecycle call
  plast,            \* record of the last shader or program creation
  \* ---- background blur ----
  blur_method,      \* ps->o.blur_method
  blur_iterations,  \* ps->o.blur_strength.iterations
  blur_cache,       \* the glx_blur_cache_t of the window
  fbos,             \* live framebuffer objects
  blast,            \* record of the last blur call
  \* ---- drawing ----
  glstate,          \* the GL state glx_render and glx_dim_dst toggle
  dlast,            \* record of the last glx_render or glx_dim_dst call
  \* ---- convolution shader synthesis ----
  synth             \* a blur kernel and the shader text built from it

paintVars == <<all_damage_last, preg,
               paint_done, paint_in, paint_age, paint_hist, paint_read>>
optVars == <<glx_swap_method, glx_no_stencil>>
sessVars == <<backend, fbconfigs, has_texture_non_power_of_two>>
bindVars == <<pptex_set, ptex, glxpixmaps, textures, teximg, last>>
cfgVars == <<srv_cfgs, cmp_done, cmp_res, offer, pcur>>
lifeVars == <<glx_exists, psglx_set, context, blur_passes, glx_prog_win,
              contexts, shaders, programs, crashed, lc_numeric, slast,
              plast>>
blurVars == <<blur_method, blur_iterations, blur_cache, fbos, blast>>
drawVars == <<glstate, dlast, synth>>
vars == <<optVars, paintVars, gl_enabled, sessVars, bindVars, cfgVars, lifeVars,
          blurVars, drawVars>>

(***************************************************************************)
(* glx_paint_pre                                                           *)
(***************************************************************************)
screen_reg == Pixels

\* bool trace_damage = (glx_swap_method < 0 || glx_swap_method > 1)
trace_damage(method) == method < 0 \/ method > 1

\* buffer_age as set by the query: only SWAPM_BUFFER_AGE asks the drawable.
QueriedAge(method, val) == IF method = SWAPM_BUFFER_AGE THEN val ELSE 0

\* Mutant: an age that is too high is served as age 1 instead of age 0.
ClampAge_ToOne(age) == IF age > CGLX_MAX_BUFFER_AGE + 1 THEN 1 ELSE age

\* if (buffer_age > CGLX_MAX_BUFFER_AGE + 1) buffer_age = 0;
ClampAge(age) == IF age > CGLX_MAX_BUFFER_AGE + 1 THEN 0 ELSE age

\* The indices visited by  for (i = 0; i < buffer_age - 1; ++i).
ReadIdx(age) == IF age # 0 THEN {i \in 0..(age - 2) : TRUE} ELSE {}

\* Mutant: the loop runs to i < buffer_age, one entry too far.
PaintReg_OneMore(reg, hist, age) ==
  IF age # 0
  THEN reg \cup UNION {hist[i] : i \in (0..(age - 1)) \cap HistIdx}
  ELSE screen_reg

\* Mutant: age 0 leaves the region as it came in.
PaintReg_NoFull(reg, hist, age) ==
  IF age # 0
  THEN reg \cup UNION {hist[i] : i \in ReadIdx(age)}
  ELSE reg

\* The paint region: union with the visited entries, or the whole screen.
PaintReg(reg, hist, age) ==
  IF age # 0
  THEN reg \cup UNION {hist[i] : i \in ReadIdx(age)}
  ELSE screen_reg

\* Mutant: the new damage overwrites entry 0 and nothing is shifted.
PushDamage_NoShift(hist, newdamage) ==
  [i \in HistIdx |-> IF i = 0 THEN newdamage ELSE hist[i]]

\* pixman_region32_fini(last); memmove(hist + 1, hist, ...); hist[0] = newdamage
PushDamage(hist, newdamage) ==
  [i \in HistIdx |-> IF i = 0 THEN newdamage ELSE hist[i - 1]]

\* Number of rectangles of a region: the maximal runs of adjacent pixels.
NRects(reg) == Cardinality({p \in reg : (p - 1) \notin reg})

\* glx_set_clip(ps, reg) with reg != NULL
SetClip(enabled, no_stencil, reg) ==
  IF no_stencil
  THEN enabled
  ELSE LET off == enabled \ {"GL_STENCIL_TEST", "GL_SCISSOR_TEST"}
       IN  IF NRects(reg) = 1 THEN off \cup {"GL_SCISSOR_TEST"} ELSE off

glx_paint_pre(reg, val) ==
  LET age0 == QueriedAge(glx_swap_method, val)
      age  == ClampAge(age0)
      out  == PaintReg(reg, all_damage_last, age)
  IN  /\ preg' = out
      /\ all_damage_last' =
           IF trace_damage(glx_swap_method)
           THEN PushDamage(all_damage_last, reg)
           ELSE all_damage_last
      /\ gl_enabled' = SetClip(gl_enabled, glx_no_stencil, out)
      /\ paint_done' = TRUE
      /\ paint_in' = reg
      /\ paint_age' = age0
      /\ paint_hist' = all_damage_last
      /\ paint_read' = ReadIdx(age)
      /\ UNCHANGED <<optVars, sessVars, bindVars, cfgVars, lifeVars, blurVars, drawVars>>

PaintPre == \E reg \in DamageRegs, val \in ReportedAges : glx_paint_pre(reg, val)

(***************************************************************************)
(* glx_bind_pixmap and glx_release_pixmap                                  *)
(***************************************************************************)
Backends == {"BKEND_XRENDER", "BKEND_GLX", "BKEND_XR_GLX_HYBRID"}
Depths == 0..OPENGL_MAX_DEPTH

\* static const glx_texture_t GLX_TEX_DEF
GLX_TEX_DEF ==
  [texture |-> 0, glpixmap |-> 0, pixmap |-> 0, target |-> "0",
   width |-> 0, height |-> 0, depth |-> 0, y_inverted |-> FALSE]

\* A glx_fbconfig_t; NullCfg stands for a NULL table entry.
FbCfg(tgts, fmt, yinv) ==
  [cfg |-> 1, texture_tgts |-> tgts, texture_fmt |-> fmt, y_inverted |-> yinv]
NullCfg ==
  [cfg |-> 0, texture_tgts |-> {}, texture_fmt |-> "0", y_inverted |-> FALSE]
TgtBits == {"GLX_TEXTURE_2D_BIT_EXT", "GLX_TEXTURE_RECTANGLE_BIT_EXT"}

\* What a read past the end of fbconfigs[] may yield: a null pointer or a
\* pointer to something that is read as a config.
GarbageCfgs == {NullCfg, FbCfg(TgtBits, "GLX_TEXTURE_FORMAT_RGBA_EXT", TRUE)}

\* The machine state the two functions work on, with the trace of the call.
Machine(pt, gps, texs, timg, en) ==
  [pt |-> pt, glxpixmaps |-> gps, textures |-> texs, teximg |-> timg,
   enabled |-> en, calls |-> <<>>, ret |-> TRUE, need_release |-> TRUE,
   fb_read |-> -1, depth_used |-> -1, pcfg |-> NullCfg]

Call(name, arg) == <<name, arg>>

\* Mutant: the GLX pixmap is destroyed but its handle is left in the binding.
ReleaseHandle_Keep(gp) == gp

\* ptex->glpixmap = 0;
ReleaseHandle(gp) == 0

\* Mutant: the tex image is released whenever a GLX pixmap is held.
BothPresent_PixmapOnly(pt) == pt.glpixmap # 0

\* if (ptex->glpixmap && ptex->texture)
BothPresent(pt) == pt.glpixmap # 0 /\ pt.texture # 0

\* glx_release_pixmap(ps, ptex)
Release(m) ==
  LET pt   == m.pt
      both == BothPresent(pt)
      c1   == IF both
              THEN <<Call("glBindTexture", pt.texture),
                     Call("glXReleaseTexImageProc", pt.glpixmap),
                     Call("glBindTexture", 0)>>
              ELSE <<>>
      c2   == IF pt.glpixmap # 0
              THEN <<Call("glXDestroyPixmap", pt.glpixmap)>>
              ELSE <<>>
  IN  [m EXCEPT
         !.pt.glpixmap = IF pt.glpixmap # 0 THEN ReleaseHandle(@) ELSE @,
         !.glxpixmaps  = {g \in @ : g[1] # pt.glpixmap},
         !.teximg      = IF both THEN 0 ELSE @,
         !.calls       = @ \o c1 \o c2]

\* Mutant: any binding that holds a texture is released first.
Inconsistent_Always(pt, pixmap) == pt.texture # 0

\* Mutant: the identity of the pixmap is not compared.
Inconsistent_Never(pt, pixmap) == FALSE

\* if (ptex->texture && ptex->pixmap != pixmap)
Inconsistent(pt, pixmap) == pt.texture # 0 /\ pt.pixmap # pixmap

\* Mutant: the selection order as three rules, rectangle whenever the 2D
\* target does not qualify.
TexTarget_RectDefault(tgts, npot) ==
  IF "GLX_TEXTURE_2D_BIT_EXT" \in tgts /\ npot
  THEN "GLX_TEXTURE_2D_EXT"
  ELSE "GLX_TEXTURE_RECTANGLE_EXT"

\* Determine texture target, copied from compiz
TexTarget(tgts, npot) ==
  IF "GLX_TEXTURE_2D_BIT_EXT" \in tgts /\ npot
  THEN "GLX_TEXTURE_2D_EXT"
  ELSE IF "GLX_TEXTURE_RECTANGLE_BIT_EXT" \in tgts
  THEN "GLX_TEXTURE_RECTANGLE_EXT"
  ELSE IF "GLX_TEXTURE_2D_BIT_EXT" \notin tgts
  THEN "GLX_TEXTURE_RECTANGLE_EXT"
  ELSE "GLX_TEXTURE_2D_EXT"

\* ptex->target = (GLX_TEXTURE_2D_EXT == tex_tgt ? GL_TEXTURE_2D : GL_TEXTURE_RECTANGLE)
GLTarget(tex_tgt) ==
  IF tex_tgt = "GLX_TEXTURE_2D_EXT" THEN "GL_TEXTURE_2D" ELSE "GL_TEXTURE_RECTANGLE"

\* if (!(width && height && depth))
NeedsQuery(width, height, depth) == ~(width # 0 /\ height # 0 /\ depth # 0)

Fail(m) == [m EXCEPT !.ret = FALSE]

\* "Release pixmap if parameters are inconsistent"
BindRelease(m, pixmap) ==
  IF Inconsistent(m.pt, pixmap) THEN Release(m) ELSE m

\* "Create GLX pixmap": e holds what the X server answers (geom_ok, qwidth,
\* qheight, qdepth, newgp) and what an out-of-bounds table read yields (oob).
BindCreate(m, pixmap, width, height, depth, e) ==
  IF m.pt.glpixmap # 0
  THEN m
  ELSE
    LET query == NeedsQuery(width, height, depth)
        w == IF query THEN e.qwidth ELSE width
        h == IF query THEN e.qheight ELSE height
        d == IF query THEN e.qdepth ELSE depth
        m0 == [m EXCEPT !.need_release = FALSE]
    IN
    IF query /\ ~e.geom_ok
    THEN Fail(m0)
    ELSE IF query /\ d > OPENGL_MAX_DEPTH
    THEN Fail([m0 EXCEPT !.depth_used = d])
    ELSE
      LET pcfg == IF d \in Depths THEN fbconfigs[d] ELSE e.oob
          m1   == [m0 EXCEPT !.depth_used = d, !.fb_read = d, !.pcfg = pcfg]
      IN
      IF pcfg.cfg = 0
      THEN Fail(m1)
      ELSE
        LET tex_tgt == TexTarget(pcfg.texture_tgts, has_texture_non_power_of_two)
        IN  [m1 EXCEPT
               !.pt = [@ EXCEPT !.glpixmap = e.newgp,
                                !.pixmap = pixmap,
                                !.target = GLTarget(tex_tgt),
                                !.width = w,
                                !.height = h,
                                !.depth = d,
                                !.y_inverted = pcfg.y_inverted],
               !.glxpixmaps = IF e.newgp # 0
                              THEN @ \cup {<<e.newgp, pixmap>>} ELSE @,
               !.calls = Append(@, Call("glXCreatePixmap", pixmap))]

\* Mutant: the tex image is released before every bind.
ReleaseFirst_Always(need_release) == TRUE

\* if (need_release) glXReleaseTexImageProc(...)
ReleaseFirst(need_release) == need_release

\* "Create texture", then the tex-image binding and the cleanup.
BindTexture(m, e) ==
  IF m.pt.glpixmap = 0
  THEN Fail(m)
  ELSE
    LET m1 == [m EXCEPT !.enabled = @ \cup {m.pt.target},
                        !.calls = Append(@, Call("glEnable", m.pt.target))]
        m2 == IF m1.pt.texture # 0
              THEN m1
              ELSE [m1 EXCEPT
                      !.need_release = FALSE,
                      !.pt.texture = e.newtex,
                      !.textures = IF e.newtex # 0 THEN @ \cup {e.newtex} ELSE @,
                      !.calls = @ \o <<Call("glGenTextures", e.newtex),
                                       Call("glBindTexture", e.newtex),
                                       Call("glTexParameteri", "GL_NEAREST"),
                                       Call("glTexParameteri", "GL_NEAREST"),
                                       Call("glTexParameteri", "GL_CLAMP_TO_EDGE"),
                                       Call("glTexParameteri", "GL_CLAMP_TO_EDGE"),
                                       Call("glBindTexture", 0)>>]
    IN
    IF m2.pt.texture = 0
    THEN Fail(m2)
    ELSE [m2 EXCEPT
            !.teximg = m2.pt.glpixmap,
            !.enabled = @ \ {m2.pt.target},
            !.calls = @ \o <<Call("glBindTexture", m2.pt.texture)>>
                        \o (IF ReleaseFirst(m2.need_release)
                            THEN <<Call("glXReleaseTexImageProc", m2.pt.glpixmap)>>
                            ELSE <<>>)
                        \o <<Call("glXBindTexImageProc", m2.pt.glpixmap),
                             Call("glBindTexture", 0),
                             Call("glDisable", m2.pt.target)>>]

\* The body of glx_bind_pixmap from the allocation of the structure on.
BindBody(m, pixmap, width, height, depth, e) ==
  LET m1 == BindRelease(m, pixmap)
      m2 == BindCreate(m1, pixmap, width, height, depth, e)
  IN  IF m2.ret THEN BindTexture(m2, e) ELSE m2

\* The current machine state; *pptex == NULL is replaced by a fresh structure.
Cur ==
  Machine(IF pptex_set THEN ptex ELSE GLX_TEX_DEF,
          glxpixmaps, textures, teximg, gl_enabled)

LastCall(op, pixmap, m) ==
  [op |-> op, pixmap |-> pixmap, ret |-> m.ret, calls |-> m.calls,
   fb_read |-> m.fb_read, depth_used |-> m.depth_used, pcfg |-> m.pcfg]

\* Arguments of the calls: no pixmap or one of NumPixmaps; the geometry
\* <<width, height, depth>> left out, or given with a depth without a
\* config, with a config, or too high.
ArgPixmaps == 0..NumPixmaps
ArgDepths == {0, 8, 24, OPENGL_MAX_DEPTH + 1}
ArgGeoms == {<<0, 0, 0>>} \cup {<<2, 2, d>> : d \in ArgDepths \ {0}}

\* What XGetGeometry may answer: failure, or a size and a depth (one with a
\* config, or one too high).
GeomAnswers ==
  {[geom_ok |-> FALSE, qwidth |-> 0, qheight |-> 0, qdepth |-> 0]}
  \cup {[geom_ok |-> TRUE, qwidth |-> 2, qheight |-> 2, qdepth |-> d] :
          d \in {24, OPENGL_MAX_DEPTH + 1}}
NoGeom == [geom_ok |-> TRUE, qwidth |-> 0, qheight |-> 0, qdepth |-> 0]

Answer(g, oob, newgp, newtex) ==
  [geom_ok |-> g.geom_ok, qwidth |-> g.qwidth, qheight |-> g.qheight,
   qdepth |-> g.qdepth, oob |-> oob, newgp |-> newgp, newtex |-> newtex]

\* An unused XID or texture name, or 0 when the allocation fails.
NewHandles(used) == {0} \cup ((1..MaxHandles) \ used)

glx_bind_pixmap(pixmap, width, height, depth) ==
  IF backend # "BKEND_GLX" /\ backend # "BKEND_XR_GLX_HYBRID"
  THEN /\ last' = LastCall("bind", pixmap, Cur)
       /\ UNCHANGED <<pptex_set, ptex, glxpixmaps, textures, teximg, gl_enabled>>
  ELSE IF pixmap = 0
  THEN /\ last' = LastCall("bind", pixmap, Fail(Cur))
       /\ UNCHANGED <<pptex_set, ptex, glxpixmaps, textures, teximg, gl_enabled>>
  ELSE
    \E m1 \in {BindRelease(Cur, pixmap)} :
    LET creates == m1.pt.glpixmap = 0
        query == creates /\ NeedsQuery(width, height, depth)
    IN
    \* the X server and the GL are asked only where the code asks them
    \E g \in (IF query THEN GeomAnswers ELSE {NoGeom}) :
      LET d == IF query THEN g.qdepth ELSE depth
          reads == creates /\ g.geom_ok /\ ~(query /\ d > OPENGL_MAX_DEPTH)
      IN
      \E oob \in (IF reads /\ d \notin Depths THEN GarbageCfgs ELSE {NullCfg}) :
        LET pcfg == IF d \in Depths THEN fbconfigs[d] ELSE oob
            asksX == reads /\ pcfg.cfg # 0
        IN
        \E newgp \in (IF asksX
                      THEN NewHandles({x[1] : x \in m1.glxpixmaps})
                      ELSE {0}) :
          LET gens == /\ IF creates THEN asksX /\ newgp # 0 ELSE TRUE
                      /\ m1.pt.texture = 0
          IN
          \E newtex \in (IF gens THEN NewHandles(textures) ELSE {0}) :
            \E m \in {BindBody(Cur, pixmap, width, height, depth,
                               Answer(g, oob, newgp, newtex))} :
                /\ pptex_set' = TRUE
                /\ ptex' = m.pt
                /\ glxpixmaps' = m.glxpixmaps
                /\ textures' = m.textures
                /\ teximg' = m.teximg
                /\ gl_enabled' = m.enabled
                /\ last' = LastCall("bind", pixmap, m)

BindPixmap ==
  \E pixmap \in ArgPixmaps, geom \in ArgGeoms :
    /\ glx_bind_pixmap(pixmap, geom[1], geom[2], geom[3])
    /\ UNCHANGED <<optVars, paintVars, sessVars, cfgVars, lifeVars, blurVars, drawVars>>

\* glx_release_pixmap is handed an allocated structure by its callers.
glx_release_pixmap ==
  /\ pptex_set
  /\ \E m \in {Release(Cur)} :
         /\ ptex' = m.pt
         /\ glxpixmaps' = m.glxpixmaps
         /\ teximg' = m.teximg
         /\ last' = LastCall("release", 0, m)
  /\ UNCHANGED <<pptex_set, textures, gl_enabled>>

ReleasePixmap ==
  /\ glx_release_pixmap
  /\ UNCHANGED <<optVars, paintVars, sessVars, cfgVars, lifeVars, blurVars, drawVars>>

(***************************************************************************)
(* FBConfig negotiation: glx_cmp_fbconfig, glx_update_fbconfig_bydepth and *)
(* glx_update_fbconfig                                                     *)
(***************************************************************************)
\* A GLXFBConfig of the X server is its position in the list that
\* glXGetFBConfigs returns; the record at that position holds what
\* glXGetFBConfigAttrib and glXGetVisualFromFBConfig answer for it, and
\* fails holds the attributes whose query does not return Success.
ServerCfg(samples, size, alpha, vdepth, rgba, rgb, red, db, st, dp, mip, fails) ==
  [GLX_SAMPLES |-> samples, GLX_BUFFER_SIZE |-> size, GLX_ALPHA_SIZE |-> alpha,
   GLX_BIND_TO_TEXTURE_TARGETS_EXT |-> TgtBits,
   visual |-> vdepth # 0, visualdepth |-> vdepth,
   GLX_BIND_TO_TEXTURE_RGBA_EXT |-> rgba, GLX_BIND_TO_TEXTURE_RGB_EXT |-> rgb,
   GLX_Y_INVERTED_EXT |-> 0,
   GLX_RED_SIZE |-> red, GLX_DOUBLEBUFFER |-> db, GLX_STENCIL_SIZE |-> st,
   GLX_DEPTH_SIZE |-> dp, GLX_BIND_TO_MIPMAP_TEXTURE_EXT |-> mip,
   fails |-> fails]

\* glXGetFBConfigAttrib(ps->dpy, cfg, attr, &val): the value stored in val
Attrib(cfgs, cfg, attr) == cfgs[cfg][attr]
\* Success == glXGetFBConfigAttrib(...)
QueryOk(cfgs, cfg, attr) == attr \notin cfgs[cfg].fails

\* glx_cmp_fbconfig_cmpattr(ps, pfbc_a, pfbc_b, attr)
glx_cmp_fbconfig_cmpattr(cfgs, a, b, attr) ==
  Attrib(cfgs, a.cfg, attr) - Attrib(cfgs, b.cfg, attr)

\* Mutant: the red size of the second config is not looked at.
AvoidB_Never(red_b) == FALSE

\* glXGetFBConfigAttrib(.., pfbc_b->cfg, GLX_RED_SIZE, &tmpattr); tmpattr != 8
AvoidB(red_b) == red_b # 8

\* glx_cmp_fbconfig(ps, pfbc_a, pfbc_b); a NULL pointer is NullCfg
glx_cmp_fbconfig(cfgs, a, b) ==
  IF a.cfg = 0 THEN -1
  ELSE IF b.cfg = 0 THEN 1
  ELSE IF Attrib(cfgs, a.cfg, "GLX_RED_SIZE") # 8 THEN -1
  ELSE IF AvoidB(Attrib(cfgs, b.cfg, "GLX_RED_SIZE")) THEN 1
  ELSE
    LET rgba == glx_cmp_fbconfig_cmpattr(cfgs, a, b, "GLX_BIND_TO_TEXTURE_RGBA_EXT")
        db   == glx_cmp_fbconfig_cmpattr(cfgs, a, b, "GLX_DOUBLEBUFFER")
        st   == glx_cmp_fbconfig_cmpattr(cfgs, a, b, "GLX_STENCIL_SIZE")
        dp   == glx_cmp_fbconfig_cmpattr(cfgs, a, b, "GLX_DEPTH_SIZE")
        mip  == glx_cmp_fbconfig_cmpattr(cfgs, a, b, "GLX_BIND_TO_MIPMAP_TEXTURE_EXT")
    IN  IF rgba # 0 THEN -rgba         \* P_CMPATTR_LT
        ELSE IF db # 0 THEN -db        \* P_CMPATTR_LT
        ELSE IF st # 0 THEN -st        \* P_CMPATTR_LT
        ELSE IF dp # 0 THEN -dp        \* P_CMPATTR_LT
        ELSE IF mip # 0 THEN mip       \* P_CMPATTR_GT
        ELSE 0

\* glx_update_fbconfig_bydepth(ps, depth, pfbcfg): the table afterwards
glx_update_fbconfig_bydepth(cfgs, tab, depth, pfbcfg) ==
  IF depth < 0 \/ depth > OPENGL_MAX_DEPTH THEN tab
  ELSE IF glx_cmp_fbconfig(cfgs, tab[depth], pfbcfg) < 0
       THEN [tab EXCEPT ![depth] = pfbcfg]
       ELSE tab

\* glx_fbconfig_t fbinfo of the loop in glx_update_fbconfig, for config k
FbInfo(cfgs, k, fmt) ==
  [cfg |-> k,
   texture_tgts |-> Attrib(cfgs, k, "GLX_BIND_TO_TEXTURE_TARGETS_EXT"),
   texture_fmt |-> fmt,
   y_inverted |-> IF QueryOk(cfgs, k, "GLX_Y_INVERTED_EXT")
                  THEN Attrib(cfgs, k, "GLX_Y_INVERTED_EXT") # 0
                  ELSE FALSE]

\* Mutant: the depth of the visual is not compared with the target depth.
RgbTarget_AnyVisual(tgtdpt, visualdepth, rgb) == tgtdpt < 32 /\ rgb

\* if (tgtdpt == visualdepth && tgtdpt < 32 && rgb)
RgbTarget(tgtdpt, visualdepth, rgb) ==
  tgtdpt = visualdepth /\ tgtdpt < 32 /\ rgb

\* One iteration of the loop of glx_update_fbconfig, for config k.
UpdateFbconfigStep(cfgs, tab, k) ==
  LET depth       == Attrib(cfgs, k, "GLX_BUFFER_SIZE")
      depth_alpha == Attrib(cfgs, k, "GLX_ALPHA_SIZE")
      visualdepth == cfgs[k].visualdepth
      rgba == /\ depth >= 32 /\ depth_alpha # 0
              /\ QueryOk(cfgs, k, "GLX_BIND_TO_TEXTURE_RGBA_EXT")
              /\ Attrib(cfgs, k, "GLX_BIND_TO_TEXTURE_RGBA_EXT") # 0
      rgb  == /\ QueryOk(cfgs, k, "GLX_BIND_TO_TEXTURE_RGB_EXT")
              /\ Attrib(cfgs, k, "GLX_BIND_TO_TEXTURE_RGB_EXT") # 0
      tgtdpt == depth - depth_alpha
      tab1 == IF RgbTarget(tgtdpt, visualdepth, rgb)
              THEN glx_update_fbconfig_bydepth(cfgs, tab, tgtdpt,
                     FbInfo(cfgs, k, "GLX_TEXTURE_FORMAT_RGB_EXT"))
              ELSE tab
  IN  IF QueryOk(cfgs, k, "GLX_SAMPLES") /\ Attrib(cfgs, k, "GLX_SAMPLES") > 1
      THEN tab
      ELSE IF \/ ~QueryOk(cfgs, k, "GLX_BUFFER_SIZE")
              \/ ~QueryOk(cfgs, k, "GLX_ALPHA_SIZE")
      THEN tab
      ELSE IF ~QueryOk(cfgs, k, "GLX_BIND_TO_TEXTURE_TARGETS_EXT") THEN tab
      ELSE IF ~cfgs[k].visual THEN tab
      ELSE IF depth = visualdepth /\ rgba
           THEN glx_update_fbconfig_bydepth(cfgs, tab1, depth,
                  FbInfo(cfgs, k, "GLX_TEXTURE_FORMAT_RGBA_EXT"))
           ELSE tab1

\* The loop of glx_update_fbconfig over configs k..nele.
RECURSIVE UpdateFbconfigLoop(_, _, _)
UpdateFbconfigLoop(cfgs, tab, k) ==
  IF k > Len(cfgs) THEN tab
  ELSE UpdateFbconfigLoop(cfgs, UpdateFbconfigStep(cfgs, tab, k), k + 1)

(***************************************************************************)
(* Session lifecycle: glx_init, glx_destroy, glx_reinit, glx_init_blur,    *)
(* glx_load_prog_main                                                      *)
(***************************************************************************)
\* The passes of blur_passes[] that are followed.
NumBlurPass == 3
PassIdx == 0..(NumBlurPass - 1)

\* ps->depth, the depth of the root visual
ps_depth == 24

\* A glx_blur_pass_t as CGLX_SESSION_INIT leaves it.
PassDef ==
  [frag_shader |-> 0, prog |-> 0,
   unifm_factor_center |-> 0, unifm_offset_x |-> 0, unifm_offset_y |-> 0,
   unifm_offset |-> 0, unifm_halfpixel |-> 0, unifm_fulltex |-> 0]

\* glx_init: the pass after memcpy of CGLX_SESSION_DEF and the loop that
\* sets three uniform locations to -1
PassFresh ==
  [PassDef EXCEPT !.unifm_factor_center = -1,
                  !.unifm_offset_x = -1,
                  !.unifm_offset_y = -1]

\* ps->glx_prog_win of a new session (GLX_PROG_MAIN_INIT)
ProgMainDef ==
  [prog |-> 0, unifm_opacity |-> -1, unifm_invert_color |-> -1, unifm_tex |-> -1]

\* The session as the lifecycle functions see it, with the trace of the
\* call: ok is false once the call has failed or the process has died,
\* fail names the step that failed, bad is set when an object that is not
\* alive is released.
Sess(exists, set, ctx, tab, npot, passes, pw, ctxs, shs, progs, en) ==
  [glx_exists |-> exists, psglx_set |-> set, context |-> ctx,
   fbconfigs |-> tab, npot |-> npot, blur_passes |-> passes,
   prog_win |-> pw, contexts |-> ctxs, shaders |-> shs, programs |-> progs,
   enabled |-> en, calls |-> <<>>, ok |-> TRUE, fail |-> "none",
   crashed |-> FALSE, bad |-> FALSE, lc_numeric |-> "C"]

NoTable == [d \in Depths |-> NullCfg]
NoPasses == [i \in PassIdx |-> PassDef]

SFail(S, what) == [S EXCEPT !.ok = FALSE, !.fail = what]
SCall(S, name, arg) == [S EXCEPT !.calls = Append(@, Call(name, arg))]

\* Mutant: the program is deleted but its handle is left in the structure.
ProgAfterFree_Keep(prog) == prog

\* pprogram->prog = 0;
ProgAfterFree(prog) == 0

\* Mutant: the cached uniform locations are left as they are.
UnifmAfterFree_Keep(loc) == loc

\* pprogram->unifm_opacity = -1; ... = -1; ... = -1;
UnifmAfterFree(loc) == -1

\* glx_free_prog_main(ps, &ps->glx_prog_win)
glx_free_prog_main(S) ==
  LET pw == S.prog_win
      S1 == IF pw.prog # 0
            THEN [SCall(S, "glDeleteProgram", pw.prog) EXCEPT
                    !.bad = @ \/ pw.prog \notin S.programs,
                    !.programs = @ \ {pw.prog},
                    !.prog_win.prog = ProgAfterFree(@)]
            ELSE S
  IN  [S1 EXCEPT !.prog_win.unifm_opacity = UnifmAfterFree(@),
                 !.prog_win.unifm_invert_color = UnifmAfterFree(@),
                 !.prog_win.unifm_tex = UnifmAfterFree(@)]

\* glx_destroy: the loop that frees the shaders and programs of the passes
RECURSIVE DestroyPasses(_, _)
DestroyPasses(S, i) ==
  IF i \notin PassIdx THEN S
  ELSE
    LET ppass == S.blur_passes[i]
        S1 == IF ppass.frag_shader # 0
              THEN [SCall(S, "glDeleteShader", ppass.frag_shader) EXCEPT
                      !.bad = @ \/ ppass.frag_shader \notin S.shaders,
                      !.shaders = @ \ {ppass.frag_shader}]
              ELSE S
        S2 == IF ppass.prog # 0
              THEN [SCall(S1, "glDeleteProgram", ppass.prog) EXCEPT
                      !.bad = @ \/ ppass.prog \notin S1.programs,
                      !.programs = @ \ {ppass.prog}]
              ELSE S1
    IN  CHOOSE R \in {DestroyPasses(T, i + 1) : T \in {S2}} : TRUE

\* glx_destroy: the free() calls of the loop over fbconfigs[d..], for the
\* entries that are set
RECURSIVE FreeCalls(_, _)
FreeCalls(tab, d) ==
  IF d \notin Depths THEN <<>>
  ELSE (IF tab[d].cfg # 0 THEN <<Call("free_fbconfig", d)>> ELSE <<>>)
       \o FreeCalls(tab, d + 1)

\* glx_destroy: free(ps->psglx->fbconfigs[i]); ps->psglx->fbconfigs[i] = NULL;
FreeFbconfigs(S) ==
  [S EXCEPT !.calls = @ \o FreeCalls(S.fbconfigs, 0),
            !.fbconfigs = NoTable]

\* glx_destroy(ps), on a session without windows (ps->list is empty)
glx_destroy(S) ==
  IF ~S.psglx_set THEN S
  ELSE
    CHOOSE R \in
      {\* free(ps->psglx); ps->psglx = NULL;
       [SCall(S4, "free_psglx", 0) EXCEPT
          !.psglx_set = FALSE,
          !.npot = FALSE,
          !.blur_passes = NoPasses] : S4 \in
        {IF S3.context # 0
         THEN [SCall(S3, "glXDestroyContext", S3.context) EXCEPT
                 !.bad = @ \/ S3.context \notin S3.contexts,
                 !.contexts = @ \ {S3.context},
                 !.context = 0]
         ELSE S3 : S3 \in
          {FreeFbconfigs(S2) : S2 \in
            {glx_free_prog_main(S1) : S1 \in
              {DestroyPasses(S, 0)}}}}} : TRUE

\* The one call of glx_init that answers "no": the calls are made in this
\* order and the first "no" ends the call, so the answers of a call are
\* fixed by naming it; a call that is not reached or not made is not asked.
InitFailures ==
  {"none", "glXQueryExtension", "XGetVisualInfo", "GLX_USE_GL",
   "GLX_DOUBLEBUFFER", "GLX_EXT_texture_from_pixmap", "glXCreateContext",
   "glXMakeCurrent", "GL_STENCIL_BITS", "glXBindTexImageEXT",
   "glXReleaseTexImageEXT"}

\* The answers to one lifecycle call: newctx is the context that
\* glXCreateContext returns, npot the answer about
\* GL_ARB_texture_non_power_of_two, traps whether reading through a NULL
\* pointer kills the process, vsync_ok the result of vsync_init.
InitEnv(fail_at, newctx, npot, traps, vsync_ok) ==
  [fail_at |-> fail_at, newctx |-> newctx, npot |-> npot, traps |-> traps,
   vsync_ok |-> vsync_ok]

\* glx_init: the checks before the session structure is allocated
InitChecks(S, need_render, e) ==
  IF ~S.glx_exists /\ e.fail_at = "glXQueryExtension"
  THEN SFail(S, e.fail_at)
  ELSE
    LET S1 == [S EXCEPT !.glx_exists = TRUE]
    IN  IF glx_swap_method > CGLX_MAX_BUFFER_AGE
        THEN SFail(S1, "glx_swap_method")
        ELSE IF e.fail_at = "XGetVisualInfo" THEN SFail(S1, e.fail_at)
        ELSE IF need_render /\ e.fail_at \in {"GLX_USE_GL", "GLX_DOUBLEBUFFER"}
             THEN SFail(S1, e.fail_at)
        ELSE IF need_render /\ e.fail_at = "GLX_EXT_texture_from_pixmap"
             THEN SFail(S1, e.fail_at)
        ELSE S1

\* glx_init: if (!ps->psglx) { allocate, copy CGLX_SESSION_DEF, reset passes }
InitAlloc(S) ==
  IF ~S.ok \/ S.psglx_set THEN S
  ELSE [SCall(S, "cmalloc_psglx", 0) EXCEPT
          !.psglx_set = TRUE,
          !.context = 0,
          !.fbconfigs = NoTable,
          !.npot = FALSE,
          !.blur_passes = [i \in PassIdx |-> PassFresh]]

\* Mutant: a context is created on every call.
NeedContext_Always(ctx) == TRUE

\* if (!psglx->context)
NeedContext(ctx) == ctx = 0

\* glx_init: create and attach the GLX context
InitContext(S, e) ==
  IF ~S.ok \/ ~NeedContext(S.context) THEN S
  ELSE IF e.fail_at = "glXCreateContext" \/ e.newctx = 0
       THEN SFail([S EXCEPT !.context = 0], "glXCreateContext")
  ELSE
    LET S1 == [SCall(S, "glXCreateContext", e.newctx) EXCEPT
                 !.context = e.newctx,
                 !.contexts = @ \cup {e.newctx}]
    IN  IF e.fail_at = "glXMakeCurrent" THEN SFail(S1, e.fail_at) ELSE S1

\* glx_init: stencil buffer, non-power-of-two textures, function addresses
InitRender(S, need_render, e) ==
  IF ~S.ok \/ ~need_render THEN S
  ELSE IF ~glx_no_stencil /\ e.fail_at = "GL_STENCIL_BITS"
       THEN SFail(S, e.fail_at)
  ELSE
    LET S1 == [S EXCEPT !.npot = e.npot]
    IN  IF e.fail_at \in {"glXBindTexImageEXT", "glXReleaseTexImageEXT"}
        THEN SFail(S1, e.fail_at)
        ELSE S1

\* Mutant: a missing config for the default depth is not noticed.
DefaultMissing_Never(tab) == FALSE

\* if (!ps->psglx->fbconfigs[ps->depth])
DefaultMissing(tab) == tab[ps_depth].cfg = 0

\* glx_update_fbconfig(ps). The log_trace call at the end reads
\* ps->psglx->fbconfigs[32]->cfg also when that entry is NULL: the process
\* dies there (e.traps) or goes on.
glx_update_fbconfig(S, cfgs, e) ==
  LET tab == UpdateFbconfigLoop(cfgs, S.fbconfigs, 1)
      S1  == [S EXCEPT !.fbconfigs = tab]
  IN  IF DefaultMissing(tab)
      THEN SFail(SCall(S1, "log_error", ps_depth), "fbconfig")
      ELSE IF tab[32].cfg = 0
      THEN [SCall(S1, "log_error", 32) EXCEPT
              !.crashed = e.traps,
              !.ok = ~e.traps,
              !.fail = IF e.traps THEN "NULL" ELSE "none"]
      ELSE S1

\* glx_init: if (need_render && !glx_update_fbconfig(ps)) goto glx_init_end;
InitNegotiate(S, need_render, e) ==
  IF ~S.ok \/ ~need_render THEN S ELSE glx_update_fbconfig(S, srv_cfgs, e)

\* glx_init: render preparations
InitPrepare(S, need_render) ==
  IF ~S.ok \/ ~need_render THEN S
  ELSE [S EXCEPT !.enabled =
          @ \ ({"GL_DEPTH_TEST", "GL_BLEND"}
               \cup (IF glx_no_stencil THEN {} ELSE {"GL_STENCIL_TEST"}))]

\* Mutant: a failed glx_init returns without tearing down.
glx_init_end_NoDestroy(S) == S

\* glx_init_end: if (!success) glx_destroy(ps);
glx_init_end(S) ==
  IF S.crashed THEN S
  ELSE IF ~S.ok THEN glx_destroy(S)
  ELSE S

\* glx_init(ps, need_render)
glx_init(S, need_render, e) ==
  CHOOSE R \in
    {glx_init_end(S6) : S6 \in
      {InitPrepare(S5, need_render) : S5 \in
        {InitNegotiate(S4, need_render, e) : S4 \in
          {InitRender(S3, need_render, e) : S3 \in
            {InitContext(S2, e) : S2 \in
              {InitAlloc(S1) : S1 \in
                {InitChecks(S, need_render, e)}}}}}}} : TRUE

\* Mutant: vsync_init is called whatever glx_init returned.
glx_reinit_VsyncAlways(S, need_render, e) ==
  CHOOSE R \in
    {IF S2.crashed THEN S2
     ELSE IF ~e.vsync_ok
          THEN SFail(SCall(S2, "vsync_init", 0), "vsync_init")
          ELSE SCall(S2, "vsync_init", 0) : S2 \in
      {glx_init(SCall(S1, "glx_init", 0), need_render, e) : S1 \in
        {glx_destroy(SCall(SCall(S, "vsync_deinit", 0),
                           "glx_destroy", 0))}}} : TRUE

\* glx_reinit(ps, need_render)
glx_reinit(S, need_render, e) ==
  CHOOSE R \in
    {IF ~S2.ok THEN S2
     ELSE IF ~e.vsync_ok
          THEN SFail(SCall(S2, "vsync_init", 0), "vsync_init")
          ELSE SCall(S2, "vsync_init", 0) : S2 \in
      {glx_init(SCall(S1, "glx_init", 0), need_render, e) : S1 \in
        {glx_destroy(SCall(SCall(S, "vsync_deinit", 0),
                           "glx_destroy", 0))}}} : TRUE

\* The name glCreateShader / glCreateProgram / glXCreateContext returns:
\* the lowest name that is not in use, 0 when there is none left.
FreshName(used) ==
  IF (1..MaxHandles) \ used = {} THEN 0
  ELSE CHOOSE n \in (1..MaxHandles) \ used :
         \A k \in (1..MaxHandles) \ used : n <= k

\* The answers to one glx_init_blur or glx_load_prog_main call: the step
\* that fails ("fbo": glGenFramebuffers, "shader": glx_create_shader,
\* "prog": glx_create_program) and the pass it fails in, and the location
\* glGetUniformLocation reports (-1: no such uniform).
BlurEnv(fail_at, fail_pass, uloc) ==
  [fail_at |-> fail_at, fail_pass |-> fail_pass, uloc |-> uloc]
BlurEnvs(fbo, npasses) ==
  {BlurEnv("none", 0, uloc) : uloc \in {-1, 0}}
  \cup (IF fbo THEN {BlurEnv("fbo", 0, 0)} ELSE {})
  \cup {BlurEnv(f, i, 0) : f \in {"shader", "prog"}, i \in 0..(npasses - 1)}

\* ppass->frag_shader = glx_create_shader(...); ppass->prog =
\* glx_create_program(...). A shader or program that fails to compile or
\* link is deleted by the function that created it, which returns 0.
BuildPass(S, i, b) ==
  LET sh == IF b.fail_at = "shader" /\ b.fail_pass = i
            THEN 0 ELSE FreshName(S.shaders)
      S1 == [S EXCEPT !.blur_passes[i].frag_shader = sh,
                      !.shaders = IF sh # 0 THEN @ \cup {sh} ELSE @]
      pr == IF b.fail_at = "prog" /\ b.fail_pass = i
            THEN 0 ELSE FreshName(S1.programs)
      S2 == [S1 EXCEPT !.blur_passes[i].prog = pr,
                       !.programs = IF pr # 0 THEN @ \cup {pr} ELSE @]
  IN  IF sh = 0 THEN SFail(S1, "shader")
      ELSE IF pr = 0 THEN SFail(S2, "prog")
      ELSE S2

\* glx_init_conv_blur: the loop over the blur kernels
RECURSIVE ConvPasses(_, _, _, _, _)
ConvPasses(S, i, nkerns, gpushader4, b) ==
  IF ~(i < NumBlurPass /\ i < nkerns) THEN S
  ELSE
    LET S1 == BuildPass(S, i, b)
        S2 == [S1 EXCEPT !.blur_passes[i].unifm_factor_center = b.uloc]
        S3 == IF gpushader4 THEN S2
              ELSE [S2 EXCEPT !.blur_passes[i].unifm_offset_x = b.uloc,
                              !.blur_passes[i].unifm_offset_y = b.uloc]
    IN  IF ~S1.ok THEN S1
        ELSE CHOOSE R \in {ConvPasses(T, i + 1, nkerns, gpushader4, b) :
                             T \in {S3}} : TRUE

\* setlocale(LC_NUMERIC, locale)
SetLocale(S, locale) == [S EXCEPT !.lc_numeric = locale]

\* The end of the block that builds the passes, which a failed pass does
\* not reach: setlocale(LC_NUMERIC, lc_numeric_old)
RestoreLocale(S, lc_numeric_old) ==
  IF S.ok THEN SetLocale(S, lc_numeric_old) ELSE S

\* glx_init_conv_blur(ps), with nkerns kernels in ps->o.blur_kerns
glx_init_conv_blur(S, nkerns, gpushader4, b) ==
  IF nkerns > 1 /\ b.fail_at = "fbo" THEN SFail(S, "fbo")
  ELSE CHOOSE R \in
         {RestoreLocale(T, S.lc_numeric) : T \in
           {ConvPasses(SetLocale(S, "C"), 0, nkerns, gpushader4, b)}} : TRUE

\* glx_init_kawase_blur: one of the two passes
KawasePass(S, i, b) ==
  LET S1 == BuildPass(S, i, b)
  IN  IF ~S1.ok THEN S1
      ELSE [S1 EXCEPT !.blur_passes[i].unifm_offset = b.uloc,
                      !.blur_passes[i].unifm_halfpixel = b.uloc,
                      !.blur_passes[i].unifm_fulltex = b.uloc]

\* glx_init_kawase_blur(ps)
glx_init_kawase_blur(S, b) ==
  IF b.fail_at = "fbo" THEN SFail(S, "fbo")
  ELSE CHOOSE R \in
         {RestoreLocale(T, S.lc_numeric) : T \in
           {IF ~S1.ok THEN S1 ELSE KawasePass(S1, 1, b) :
              S1 \in {KawasePass(SetLocale(S, "C"), 0, b)}}} : TRUE

BlurMethods == {"BLRMTHD_CONV", "BLRMTHD_KAWASE", "BLRMTHD_NONE"}

\* glx_init_blur(ps)
glx_init_blur(S, method, nkerns, gpushader4, b) ==
  IF method = "BLRMTHD_CONV" THEN glx_init_conv_blur(S, nkerns, gpushader4, b)
  ELSE IF method = "BLRMTHD_KAWASE" THEN glx_init_kawase_blur(S, b)
  ELSE SFail(S, "blur_method")

\* glx_load_prog_main(ps, vshader_str, fshader_str, &ps->glx_prog_win)
glx_load_prog_main(S, b) ==
  LET pr == IF b.fail_at = "prog" THEN 0 ELSE FreshName(S.programs)
      S1 == [S EXCEPT !.prog_win.prog = pr,
                      !.programs = IF pr # 0 THEN @ \cup {pr} ELSE @]
  IN  IF pr = 0 THEN SFail(S1, "prog")
      ELSE [S1 EXCEPT !.prog_win.unifm_opacity = b.uloc,
                      !.prog_win.unifm_invert_color = b.uloc,
                      !.prog_win.unifm_tex = b.uloc]

\* The session now, and the variables after a call that left it as S.
CurSess ==
  [Sess(glx_exists, psglx_set, context, fbconfigs, has_texture_non_power_of_two,
       blur_passes, glx_prog_win, contexts, shaders, programs, gl_enabled)
     EXCEPT !.lc_numeric = lc_numeric]

\* What the last lifecycle call was and did; after_destroy tells a glx_init
\* or glx_destroy that was called right after a glx_destroy.
SessLast(op, after_destroy, need_render, S) ==
  [op |-> op, after_destroy |-> after_destroy, need_render |-> need_render,
   returned |-> ~S.crashed, ret |-> S.ok, fail |-> S.fail,
   calls |-> S.calls, bad |-> S.bad, lc_entry |-> lc_numeric]

SessApply(op, need_render, S) ==
  /\ glx_exists' = S.glx_exists
  /\ psglx_set' = S.psglx_set
  /\ context' = S.context
  /\ fbconfigs' = S.fbconfigs
  /\ has_texture_non_power_of_two' = S.npot
  /\ blur_passes' = S.blur_passes
  /\ glx_prog_win' = S.prog_win
  /\ contexts' = S.contexts
  /\ shaders' = S.shaders
  /\ programs' = S.programs
  /\ gl_enabled' = S.enabled
  /\ crashed' = S.crashed
  /\ lc_numeric' = S.lc_numeric
  /\ slast' = SessLast(op, op \in {"init", "destroy"} /\ slast.op = "destroy",
                         need_render, S)
  /\ UNCHANGED <<backend, optVars, paintVars, bindVars, cfgVars, blurVars,
                 drawVars, plast>>

\* The calls glx_init makes on a session with this glx_exists and context.
AskedCalls(exists, ctx, need_render) ==
  {"XGetVisualInfo"}
  \cup (IF exists THEN {} ELSE {"glXQueryExtension"})
  \cup (IF ctx # 0 THEN {} ELSE {"glXCreateContext", "glXMakeCurrent"})
  \cup (IF need_render
        THEN {"GLX_USE_GL", "GLX_DOUBLEBUFFER", "GLX_EXT_texture_from_pixmap",
              "glXBindTexImageEXT", "glXReleaseTexImageEXT"}
             \cup (IF glx_no_stencil THEN {} ELSE {"GL_STENCIL_BITS"})
        ELSE {})

\* The answers glx_init may get: one of the calls it makes answers "no",
\* or none does and the answers that are asked for when rendering is
\* needed are drawn.
InitEnvs(asked, need_render, vsync) ==
  {InitEnv(f, FreshName(contexts), FALSE, FALSE, TRUE) :
     f \in InitFailures \cap asked}
  \cup {InitEnv("none", FreshName(contexts), npot, traps, vsync_ok) :
          npot \in (IF need_render THEN BOOLEAN ELSE {FALSE}),
          traps \in (IF need_render THEN BOOLEAN ELSE {FALSE}),
          vsync_ok \in (IF vsync THEN BOOLEAN ELSE {TRUE})}

GlxInit ==
  /\ ~crashed
  /\ \E need_render \in BOOLEAN :
       \E e \in InitEnvs(AskedCalls(glx_exists, context, need_render),
                         need_render, FALSE) :
         \E S \in {glx_init(C, need_render, e) : C \in {CurSess}} :
           SessApply("init", need_render, S)

GlxDestroy ==
  /\ ~crashed
  /\ \E S \in {glx_destroy(C) : C \in {CurSess}} : SessApply("destroy", FALSE, S)

GlxReinit ==
  /\ ~crashed
  /\ \E need_render \in BOOLEAN :
       \E e \in InitEnvs(AskedCalls(glx_exists, 0, need_render),
                         need_render, TRUE) :
         \E S \in {glx_reinit(C, need_render, e) : C \in {CurSess}} :
           SessApply("reinit", need_render, S)

\* glx_init_blur and glx_load_prog_main are called by the session set-up
\* after a successful glx_init, once for a session structure: the context
\* is current and nothing has been built yet.
GlxInitBlur ==
  /\ ~crashed /\ psglx_set /\ context # 0
  /\ \A i \in PassIdx :
       blur_passes[i].frag_shader = 0 /\ blur_passes[i].prog = 0
  /\ \/ \E nkerns \in 1..NumBlurPass, gpushader4 \in BOOLEAN :
          \E b \in BlurEnvs(nkerns > 1, nkerns) :
            \E S \in {glx_init_blur(C, "BLRMTHD_CONV", nkerns, gpushader4, b) :
                        C \in {CurSess}} :
              SessApply("init_blur", FALSE, S)
     \/ \E method \in BlurMethods \ {"BLRMTHD_CONV"} :
          \E b \in (IF method = "BLRMTHD_KAWASE"
                    THEN BlurEnvs(TRUE, 2) ELSE {BlurEnv("none", 0, 0)}) :
            \E S \in {glx_init_blur(C, method, 1, FALSE, b) : C \in {CurSess}} :
              SessApply("init_blur", FALSE, S)

GlxLoadProgMain ==
  /\ ~crashed /\ psglx_set /\ context # 0
  /\ glx_prog_win.prog = 0
  /\ \E b \in BlurEnvs(FALSE, 1) \ {BlurEnv("shader", 0, 0)} :
       \E S \in {glx_load_prog_main(C, b) : C \in {CurSess}} :
         SessApply("load_prog_main", FALSE, S)

(***************************************************************************)
(* Shaders and programs: glx_create_shader, glx_create_program,            *)
(* glx_create_program_from_str                                             *)
(***************************************************************************)
\* The shader and program objects of the GL, with the trace and the result
\* of a call; failed tells that a compile or link status was GL_FALSE or
\* that an object could not be created.
GLObjs(shs, progs) ==
  [shaders |-> shs, programs |-> progs, calls |-> <<>>, ret |-> 0,
   failed |-> FALSE]

\* What the GL answers when an object is created and built: whether
\* glCreateShader / glCreateProgram returns a name, and the compile or
\* link status.
GLAnswer(created, status) == [created |-> created, status |-> status]
GLAnswers == {GLAnswer(c, s) : c, s \in BOOLEAN}

\* glx_create_shader_end: if (shader && !success) { glDeleteShader(shader);
\* shader = 0; } return shader;
ShaderEnd(G, shader, success) ==
  IF shader # 0 /\ ~success
  THEN [SCall(G, "glDeleteShader", shader) EXCEPT
          !.shaders = @ \ {shader}, !.ret = 0]
  ELSE [G EXCEPT !.ret = shader]

\* glx_create_shader(shader_type, shader_str)
glx_create_shader(G, a) ==
  LET shader == IF a.created THEN FreshName(G.shaders) ELSE 0
  IN  IF shader = 0 THEN ShaderEnd([G EXCEPT !.failed = TRUE], 0, FALSE)
      ELSE
        LET G1 == SCall(SCall([G EXCEPT !.shaders = @ \cup {shader}],
                              "glShaderSource", shader),
                        "glCompileShader", shader)
        IN  IF ~a.status
            THEN ShaderEnd([G1 EXCEPT !.failed = TRUE], shader, FALSE)
            ELSE ShaderEnd(G1, shader, TRUE)

\* for (i < nshaders) glAttachShader(program, shaders[i]) and the same
\* loop with glDetachShader
RECURSIVE EachShader(_, _, _, _)
EachShader(G, name, shs, i) ==
  IF i > Len(shs) THEN G
  ELSE EachShader(SCall(G, name, shs[i]), name, shs, i + 1)

\* glx_create_program_end: detach the shaders; if (program && !success)
\* { glDeleteProgram(program); program = 0; } return program;
ProgramEnd(G, program, shs, success) ==
  LET G1 == IF program # 0 THEN EachShader(G, "glDetachShader", shs, 1) ELSE G
  IN  IF program # 0 /\ ~success
      THEN [SCall(G1, "glDeleteProgram", program) EXCEPT
              !.programs = @ \ {program}, !.ret = 0]
      ELSE [G1 EXCEPT !.ret = program]

\* glx_create_program(shaders, nshaders)
glx_create_program(G, shs, a) ==
  LET program == IF a.created THEN FreshName(G.programs) ELSE 0
  IN  IF program = 0 THEN ProgramEnd([G EXCEPT !.failed = TRUE], 0, shs, FALSE)
      ELSE
        LET G1 == SCall(EachShader([G EXCEPT !.programs = @ \cup {program}],
                                   "glAttachShader", shs, 1),
                        "glLinkProgram", program)
        IN  IF ~a.status
            THEN ProgramEnd([G1 EXCEPT !.failed = TRUE], program, shs, FALSE)
            ELSE ProgramEnd(G1, program, shs, TRUE)

\* if (shader) glDeleteShader(shader);
DeleteShader(G, shader) ==
  IF shader # 0
  THEN [SCall(G, "glDeleteShader", shader) EXCEPT !.shaders = @ \ {shader}]
  ELSE G

\* The shaders that were created, vertex shader first.
Created(vert_shader, frag_shader) ==
  (IF vert_shader # 0 THEN <<vert_shader>> ELSE <<>>)
  \o (IF frag_shader # 0 THEN <<frag_shader>> ELSE <<>>)

\* glx_create_program_from_str(vert_shader_str, frag_shader_str): has_vert
\* and has_frag tell that the string is not NULL, av, af and ap are the
\* answers for the vertex shader, the fragment shader and the program
glx_create_program_from_str(G, has_vert, has_frag, av, af, ap) ==
  LET GV == IF has_vert THEN glx_create_shader(G, av) ELSE [G EXCEPT !.ret = 0]
      vert_shader == GV.ret
      GF == IF has_frag THEN glx_create_shader(GV, af) ELSE [GV EXCEPT !.ret = 0]
      frag_shader == GF.ret
      shs == Created(vert_shader, frag_shader)
      GP == IF Len(shs) > 0 THEN glx_create_program(GF, shs, ap)
            ELSE [GF EXCEPT !.ret = 0]
  IN  [DeleteShader(DeleteShader(GP, vert_shader), frag_shader) EXCEPT
         !.ret = GP.ret]

\* The record of a creation call: what it returned, whether a compile or
\* link failed in it, whether a source it was given did not compile, and
\* the objects alive before it.
ProgLast(op, G, src_failed) ==
  [op |-> op, ret |-> G.ret, failed |-> G.failed, src_failed |-> src_failed,
   calls |-> G.calls, entry_shaders |-> shaders, entry_programs |-> programs]

NoProgLast ==
  [op |-> "none", ret |-> 0, failed |-> FALSE, src_failed |-> FALSE,
   calls |-> <<>>, entry_shaders |-> {}, entry_programs |-> {}]

ProgApply(op, G, src_failed) ==
  /\ shaders' = G.shaders
  /\ programs' = G.programs
  /\ plast' = ProgLast(op, G, src_failed)
  /\ UNCHANGED <<optVars, paintVars, gl_enabled, sessVars, bindVars, cfgVars,
                 glx_exists, psglx_set, context, blur_passes, glx_prog_win,
                 contexts, crashed, lc_numeric, slast, blurVars, drawVars>>

GlxCreateShader ==
  \E a \in GLAnswers :
    \E G \in {glx_create_shader(GLObjs(shaders, programs), a)} :
      ProgApply("create_shader", G, ~a.created \/ ~a.status)

\* The caller passes shaders it has created.
GlxCreateProgram ==
  \E a \in GLAnswers, sh \in shaders :
    \E G \in {glx_create_program(GLObjs(shaders, programs), <<sh>>, a)} :
      ProgApply("create_program", G, FALSE)

GlxCreateProgramFromStr ==
  \E has_vert, has_frag \in BOOLEAN, av, af, ap \in GLAnswers :
    \E G \in {glx_create_program_from_str(GLObjs(shaders, programs),
                                          has_vert, has_frag, av, af, ap)} :
      ProgApply("create_program_from_str", G,
                \/ has_vert /\ ~(av.created /\ av.status)
                \/ has_frag /\ ~(af.created /\ af.status))

(***************************************************************************)
(* Background blur: glx_blur_dst, glx_conv_blur_dst, glx_kawase_blur_dst   *)
(***************************************************************************)
\* The texture names the GL can hand out.
MaxTextures == 3

\* A glx_blur_cache_t without textures and framebuffer (ibc, or the cache
\* of a window that was not blurred yet).
EmptyCache ==
  [textures |-> [i \in PassIdx |-> 0], fbo |-> 0, width |-> 0, height |-> 0]

\* The GL and the cache as a blur call sees them, with the trace of the
\* call: draw_fb is the framebuffer bound for drawing (0: the back
\* buffer), val the value the last glx_gen_texture returned, ngen the
\* number of glx_gen_texture calls, tex_new and fbo_new the objects the
\* call has created, prog the program in use, oob whether the call has
\* read blur_passes[] behind its end.
Blur(cache, texs, fbs, en) ==
  [cache |-> cache, textures |-> texs, fbos |-> fbs, enabled |-> en,
   draw_fb |-> 0, prog |-> 0, oob |-> FALSE, val |-> 0, ngen |-> 0, tex_new |-> {}, fbo_new |-> {},
   iterations |-> 0, calls |-> <<>>, ok |-> TRUE, fail |-> "none",
   died |-> FALSE]

BCall(B, name, arg) == [B EXCEPT !.calls = Append(@, Call(name, arg))]
BFail(B, what) == [B EXCEPT !.ok = FALSE, !.fail = what]

\* The answers of the GL to one blur call: the call of that name that
\* fails, and which one of them in the order they are made.
DstEnv(fail_at, fail_n) == [fail_at |-> fail_at, fail_n |-> fail_n]

\* glGenTextures(1, &tex): the lowest name not in use, 0 if there is none
FreshTexture(used) ==
  IF (1..MaxTextures) \ used = {} THEN 0
  ELSE CHOOSE n \in (1..MaxTextures) \ used :
         \A k \in (1..MaxTextures) \ used : n <= k

\* GL_TEXTURE_RECTANGLE, or GL_TEXTURE_2D with non-power-of-two textures
TexTgt(npot) == IF npot THEN "GL_TEXTURE_2D" ELSE "GL_TEXTURE_RECTANGLE"

\* glx_gen_texture(ps, tex_tgt, width, height); B.val is what it returns
glx_gen_texture(B, tex_tgt, e) ==
  LET n   == B.ngen + 1
      tex == IF e.fail_at = "glGenTextures" /\ e.fail_n = n
             THEN 0 ELSE FreshTexture(B.textures)
  IN  IF tex = 0
      THEN [BCall(B, "glGenTextures", 0) EXCEPT !.ngen = n, !.val = 0]
      ELSE [BCall(B, "glGenTextures", tex) EXCEPT
              !.ngen = n, !.val = tex,
              !.textures = @ \cup {tex},
              !.tex_new = @ \cup {tex},
              !.enabled = @ \cup {tex_tgt}]

\* if (!pbc->textures[i]) pbc->textures[i] = glx_gen_texture(...);
GenIfMissing(B, i, tex_tgt, e) ==
  IF B.cache.textures[i] # 0 THEN B
  ELSE CHOOSE R \in {[G EXCEPT !.cache.textures[i] = G.val] :
                       G \in {glx_gen_texture(B, tex_tgt, e)}} : TRUE

\* if (!pbc->fbo) glGenFramebuffers(1, &pbc->fbo);
GenFramebuffer(B, e) ==
  IF B.cache.fbo # 0 THEN B
  ELSE
    LET f == IF e.fail_at = "glGenFramebuffers" THEN 0 ELSE FreshName(B.fbos)
    IN  IF f = 0 THEN BCall(B, "glGenFramebuffers", 0)
        ELSE [BCall(B, "glGenFramebuffers", f) EXCEPT
                !.cache.fbo = f,
                !.fbos = @ \cup {f},
                !.fbo_new = @ \cup {f}]

\* The glDeleteTextures calls for the textures of the cache from slot i on.
RECURSIVE DeleteCalls(_, _)
DeleteCalls(texs, i) ==
  IF i \notin PassIdx THEN <<>>
  ELSE (IF texs[i] # 0 THEN <<Call("glDeleteTextures", texs[i])>> ELSE <<>>)
       \o DeleteCalls(texs, i + 1)

\* free_glx_bc_resize(ps, pbc): the textures of the cache are deleted
free_glx_bc_resize(B) ==
  [B EXCEPT !.calls = @ \o DeleteCalls(B.cache.textures, 0),
            !.textures = @ \ {B.cache.textures[i] : i \in PassIdx},
            !.cache.textures = [i \in PassIdx |-> 0],
            !.cache.width = 0,
            !.cache.height = 0]

\* free_glx_bc(ps, pbc): the textures and the framebuffer are deleted
free_glx_bc(B) ==
  CHOOSE R \in
    {IF B1.cache.fbo # 0
     THEN [BCall(B1, "glDeleteFramebuffers", B1.cache.fbo) EXCEPT
             !.fbos = @ \ {B1.cache.fbo},
             !.cache.fbo = 0]
     ELSE B1 : B1 \in {free_glx_bc_resize(B)}} : TRUE

\* if (mwidth != pbc->width || mheight != pbc->height) free_glx_bc_resize()
ResizeCache(B, w, h) ==
  IF w # B.cache.width \/ h # B.cache.height THEN free_glx_bc_resize(B) ELSE B

\* if (have_scissors) glEnable(GL_SCISSOR_TEST);
\* if (have_stencil) glEnable(GL_STENCIL_TEST);
EnableTests(B, have_scissors, have_stencil) ==
  LET B1 == IF have_scissors
            THEN [BCall(B, "glEnable", "GL_SCISSOR_TEST") EXCEPT
                    !.enabled = @ \cup {"GL_SCISSOR_TEST"}]
            ELSE B
  IN  IF have_stencil
      THEN [BCall(B1, "glEnable", "GL_STENCIL_TEST") EXCEPT
              !.enabled = @ \cup {"GL_STENCIL_TEST"}]
      ELSE B1

\* glDisable(GL_STENCIL_TEST); glDisable(GL_SCISSOR_TEST);
DisableTests(B) ==
  [BCall(BCall(B, "glDisable", "GL_STENCIL_TEST"),
         "glDisable", "GL_SCISSOR_TEST") EXCEPT
     !.enabled = @ \ {"GL_STENCIL_TEST", "GL_SCISSOR_TEST"}]

\* Mutant: the tests are left as the passes left them.
EndRestore_Skip(B, have_scissors, have_stencil) == B

\* glx_*_blur_dst_end: the tests that were enabled on entry are enabled
EndRestore(B, have_scissors, have_stencil) ==
  EnableTests(B, have_scissors, have_stencil)

\* Mutant: the call's own cache is not freed.
BlurEnd_NoFree(B, tex_tgt, have_scissors, have_stencil, own) ==
  EndRestore([B EXCEPT !.draw_fb = 0, !.enabled = @ \ {tex_tgt}],
             have_scissors, have_stencil)

\* glx_conv_blur_dst_end / glx_kawase_blur_dst_end; own tells that the
\* call works on its own cache ibc
BlurEnd(B, tex_tgt, have_scissors, have_stencil, own) ==
  CHOOSE R \in
    {IF own THEN free_glx_bc(B2) ELSE B2 : B2 \in
      {EndRestore([B EXCEPT !.draw_fb = 0, !.enabled = @ \ {tex_tgt}],
                  have_scissors, have_stencil)}} : TRUE

\* Mutant: every pass draws to the back buffer.
PassTarget_Back(last_pass, fbo) == 0

\* glBindFramebuffer(GL_FRAMEBUFFER, fbo) unless it is the last pass, which
\* has glBindFramebuffer(GL_FRAMEBUFFER, 0)
PassTarget(last_pass, fbo) == IF last_pass THEN 0 ELSE fbo

\* glUseProgram(prog)
UseProgram(B, prog) == [BCall(B, "glUseProgram", prog) EXCEPT !.prog = prog]

\* P_PAINTREG_START() ... P_PAINTREG_END(): glBegin(GL_QUADS), the quads
\* of the rectangles, drawn to the bound framebuffer, glEnd()
P_PAINTREG(B) ==
  BCall(BCall(BCall(B, "glBegin", 0), "draw", B.draw_fb), "glEnd", 0)

\* glUseProgram(ppass->prog) and the quads of the pass
DrawPass(B, prog) == P_PAINTREG(UseProgram(B, prog))

\* One pass of a blur with the program prog, reading the texture src: bind
\* the target; a pass that is not the last one attaches the texture dst to
\* the framebuffer, and fails if the framebuffer is incomplete as the n-th
\* glCheckFramebufferStatus of the call; the last one enables the tests;
\* then the pass draws.
BlurPass(B, last_pass, n, prog, src, dst, have_scissors, have_stencil, e) ==
  LET B1 == [BCall(B, "glBindTexture", src) EXCEPT
               !.draw_fb = PassTarget(last_pass, B.cache.fbo)]
  IN  IF last_pass
      THEN DrawPass(EnableTests(B1, have_scissors, have_stencil), prog)
      ELSE IF e.fail_at = "glCheckFramebufferStatus" /\ e.fail_n = n
      THEN BFail(BCall(BCall(B1, "glFramebufferTexture2D", dst),
                       "glCheckFramebufferStatus", 0), "attach")
      ELSE DrawPass(BCall(B1, "glFramebufferTexture2D", dst), prog)

\* last_pass = !ps->psglx->blur_passes[i + 1].prog, for i + 1 in the array
EndOfChain(i) == blur_passes[i + 1].prog = 0

\* glx_conv_blur_dst: for (int i = 0; !last_pass; ++i), with tex_scr and
\* tex_scr2 swapped after each pass. With every pass of blur_passes built,
\* blur_passes[i + 1] lies behind the array: the assert after the read
\* ends the process, and a build without asserts goes on with what the
\* read yields (0: this pass is the last one; anything else: the next pass
\* is read from behind the array).
RECURSIVE ConvBlurPasses(_, _, _, _, _, _, _)
ConvBlurPasses(B, i, tex_scr, tex_scr2, have_scissors, have_stencil, e) ==
  IF i + 1 \notin PassIdx /\ e.fail_at # "no_assert"
  THEN [B EXCEPT !.oob = TRUE, !.died = TRUE, !.ok = FALSE, !.fail = "assert"]
  ELSE
    LET last_pass == IF i + 1 \in PassIdx THEN EndOfChain(i) ELSE TRUE
    IN  CHOOSE R \in
          {IF ~B1.ok \/ last_pass THEN B1
           ELSE ConvBlurPasses(B1, i + 1, tex_scr2, tex_scr,
                               have_scissors, have_stencil, e) :
             B1 \in {IF B0.ok THEN UseProgram(B0, 0) ELSE B0 : B0 \in
               {BlurPass([B EXCEPT !.oob = @ \/ i + 1 \notin PassIdx],
                         last_pass, i + 1, blur_passes[i].prog, tex_scr,
                         tex_scr2, have_scissors, have_stencil, e)}}} : TRUE

\* "Read destination pixels into a texture": glEnable(tex_tgt), then
\* glx_copy_region_to_tex into textures[0]
Capture(B, tex_tgt) ==
  BCall(BCall([B EXCEPT !.enabled = @ \cup {tex_tgt}],
              "glBindTexture", B.cache.textures[0]),
        "glx_copy_region_to_tex", B.cache.textures[0])

\* glx_conv_blur_dst: from the allocation of the scratch objects to the
\* last pass
ConvBlurBody(B, w, h, tex_tgt, more_passes, have_scissors, have_stencil, e) ==
  CHOOSE R \in
    {IF B4.cache.textures[0] = 0 \/ (more_passes /\ B4.cache.textures[1] = 0)
     THEN BFail(B4, "texture")
     ELSE IF more_passes /\ B4.cache.fbo = 0
     THEN BFail(B4, "framebuffer")
     ELSE ConvBlurPasses(
            IF more_passes
            THEN DisableTests(Capture(B4, tex_tgt))
            ELSE Capture(B4, tex_tgt),
            0, B4.cache.textures[0], B4.cache.textures[1],
            have_scissors, have_stencil, e) : B4 \in
      {IF more_passes THEN GenFramebuffer(B3, e) ELSE B3 : B3 \in
        {[B2 EXCEPT !.cache.width = w, !.cache.height = h] : B2 \in
          {IF more_passes THEN GenIfMissing(B1, 1, tex_tgt, e) ELSE B1 : B1 \in
            {GenIfMissing(B0, 0, tex_tgt, e) : B0 \in
              {ResizeCache(B, w, h)}}}}}} : TRUE

\* glx_conv_blur_dst(ps, dx, dy, width, height, z, factor_center, reg_tgt, pbc)
glx_conv_blur_dst(B, w, h, npot, own, e) ==
  LET have_scissors == "GL_SCISSOR_TEST" \in B.enabled
      have_stencil  == "GL_STENCIL_TEST" \in B.enabled
  IN  CHOOSE R \in
        {IF B1.died THEN B1
         ELSE BlurEnd(B1, TexTgt(npot), have_scissors, have_stencil, own) :
           B1 \in {ConvBlurBody(B, w, h, TexTgt(npot),
                                blur_passes[1].prog # 0,
                                have_scissors, have_stencil, e)}} : TRUE

\* Mutant: only the width is looked at.
TooSmall_WidthOnly(w, h, iterations) == (w \div (2 ^ (iterations - 1))) < 1

\* (mwidth / (1 << (iterations-1))) < 1 || (mheight / (1 << (iterations-1))) < 1
TooSmall(w, h, iterations) ==
  \/ (w \div (2 ^ (iterations - 1))) < 1
  \/ (h \div (2 ^ (iterations - 1))) < 1

\* while (...) --iterations; for a rectangle with w, h >= 1 the loop ends
\* at iterations = 1 at the latest, so that no shift count is negative.
RECURSIVE KawaseIterations(_, _, _)
KawaseIterations(w, h, iterations) ==
  IF iterations >= 1 /\ TooSmall(w, h, iterations)
  THEN KawaseIterations(w, h, iterations - 1)
  ELSE iterations

\* for (int i = 1; i <= iterations; i++) if (!pbc->textures[i]) ...
RECURSIVE KawaseTextures(_, _, _, _, _)
KawaseTextures(B, i, iterations, tex_tgt, e) ==
  IF i > iterations THEN B
  ELSE CHOOSE R \in
         {KawaseTextures(B1, i + 1, iterations, tex_tgt, e) :
            B1 \in {GenIfMissing(B, i, tex_tgt, e)}} : TRUE

\* Mutant: every up-sample pass reads the smallest texture.
UpSource_Smallest(i, iterations) == iterations

\* GLuint tex_src2 = pbc->textures[i] of the up-sample pass i
UpSource(i, iterations) == i

\* First pass(es): Kawase Downsample, for (int i = 1; i <= iterations; i++)
RECURSIVE KawaseDown(_, _, _, _)
KawaseDown(B, i, iterations, e) ==
  IF ~B.ok \/ i > iterations THEN B
  ELSE CHOOSE R \in
         {KawaseDown(B1, i + 1, iterations, e) :
            B1 \in {BlurPass(B, FALSE, i, blur_passes[0].prog,
                             B.cache.textures[i - 1], B.cache.textures[i],
                             FALSE, FALSE, e)}} : TRUE

\* Second pass(es): Kawase Upsample, for (int i = iterations; i >= 1; i--)
RECURSIVE KawaseUp(_, _, _, _, _, _)
KawaseUp(B, i, iterations, have_scissors, have_stencil, e) ==
  IF ~B.ok \/ i < 1 THEN B
  ELSE CHOOSE R \in
         {KawaseUp(B1, i - 1, iterations, have_scissors, have_stencil, e) :
            B1 \in {BlurPass(B, i = 1, iterations + (iterations - i) + 1,
                             blur_passes[1].prog,
                             B.cache.textures[UpSource(i, iterations)],
                             B.cache.textures[i - 1],
                             have_scissors, have_stencil, e)}} : TRUE

\* The two chains of passes, and glUseProgram(0) after the last one
KawasePasses(B, iterations, have_scissors, have_stencil, e) ==
  CHOOSE R \in
    {IF B2.ok THEN UseProgram(B2, 0) ELSE B2 : B2 \in
      {KawaseUp(B1, iterations, iterations, have_scissors, have_stencil, e) :
         B1 \in {KawaseDown(B, 1, iterations, e)}}} : TRUE

\* glx_kawase_blur_dst: from the allocation of the scratch objects to the
\* last pass
KawaseBlurBody(B, w, h, tex_tgt, have_scissors, have_stencil, e) ==
  LET iterations == KawaseIterations(w, h, blur_iterations)
  IN  IF iterations >= NumBlurPass   \* assert(iterations < MAX_BLUR_PASS)
      THEN [B EXCEPT !.died = TRUE, !.ok = FALSE, !.fail = "assert"]
      ELSE
        CHOOSE R \in
          {IF B3.cache.textures[0] = 0 THEN BFail(B3, "texture")
           ELSE IF \E i \in 1..iterations : B3.cache.textures[i] = 0
           THEN BFail(B3, "texture")
           ELSE IF B3.cache.fbo = 0 THEN BFail(B3, "framebuffer")
           ELSE KawasePasses(DisableTests(Capture(B3, tex_tgt)), iterations,
                             have_scissors, have_stencil, e) :
             B3 \in
            {GenFramebuffer([B2 EXCEPT !.cache.width = w, !.cache.height = h,
                                       !.iterations = iterations], e) : B2 \in
              {KawaseTextures(B1, 1, iterations, tex_tgt, e) : B1 \in
                {GenIfMissing(B0, 0, tex_tgt, e) : B0 \in
                  {ResizeCache(B, w, h)}}}}} : TRUE

\* glx_kawase_blur_dst(ps, dx, dy, width, height, z, reg_tgt, pbc)
glx_kawase_blur_dst(B, w, h, npot, own, e) ==
  LET have_scissors == "GL_SCISSOR_TEST" \in B.enabled
      have_stencil  == "GL_STENCIL_TEST" \in B.enabled
  IN  CHOOSE R \in
        {IF B1.died THEN B1
         ELSE BlurEnd(B1, TexTgt(npot), have_scissors, have_stencil, own) :
           B1 \in {KawaseBlurBody(B, w, h, TexTgt(npot),
                                  have_scissors, have_stencil, e)}} : TRUE

\* glx_blur_dst(ps, dx, dy, width, height, z, factor_center, reg_tgt, pbc)
glx_blur_dst(B, w, h, npot, own, e) ==
  IF blur_method = "BLRMTHD_CONV" THEN glx_conv_blur_dst(B, w, h, npot, own, e)
  ELSE IF blur_method = "BLRMTHD_KAWASE"
       THEN glx_kawase_blur_dst(B, w, h, npot, own, e)
  ELSE BFail(B, "blur_method")

\* The record of a blur call that left the GL and the cache as B.
BlurLast(op, w, h, own, entry, B) ==
  [op |-> op, w |-> w, h |-> h, own |-> own, entry_enabled |-> entry,
   requested |-> blur_iterations, iterations |-> B.iterations,
   returned |-> ~B.died, ret |-> B.ok, fail |-> B.fail, calls |-> B.calls,
   prog |-> B.prog, draw_fb |-> B.draw_fb, oob |-> B.oob,
   tex_new |-> B.tex_new, fbo_new |-> B.fbo_new]

\* Widths and heights of the blurred rectangle: a window is at least one
\* pixel wide and high.
BlurDims == {<<1, 4>>, <<4, 4>>}

\* The answers of the GL to a blur call, and the call in a build without
\* asserts in which the read behind blur_passes[] yields 0.
DstEnvs ==
  {DstEnv("none", 0), DstEnv("no_assert", 0), DstEnv("glGenFramebuffers", 0)}
  \cup {DstEnv("glGenTextures", n) : n \in 1..NumBlurPass}
  \cup {DstEnv("glCheckFramebufferStatus", n) : n \in 1..(2 * NumBlurPass - 3)}

\* glx_blur_dst on the window's cache (pbc) or without one (pbc == NULL)
GlxBlurDst ==
  /\ blast.returned
  /\ \E dims \in BlurDims, own \in BOOLEAN, e \in DstEnvs :
       \E B \in {glx_blur_dst(C, dims[1], dims[2],
                              has_texture_non_power_of_two, own, e) :
                   C \in {Blur(IF own THEN EmptyCache ELSE blur_cache,
                               textures, fbos, gl_enabled)}} :
         /\ blur_cache' = IF own THEN blur_cache ELSE B.cache
         /\ textures' = B.textures
         /\ fbos' = B.fbos
         /\ gl_enabled' = B.enabled
         /\ blast' = BlurLast(blur_method, dims[1], dims[2], own, gl_enabled, B)
  /\ UNCHANGED <<blur_method, blur_iterations, optVars, paintVars, sessVars,
                 pptex_set, ptex, glxpixmaps, teximg, last, cfgVars, lifeVars,
                 drawVars>>

\* Bounds of the rectangles and iteration counts the reduction is run on.
MaxDim == 9
MaxIter == 5

\* glx_kawase_blur_dst: the reduction of the iteration count alone
KawaseReduce ==
  \E w \in 1..MaxDim, h \in 1..MaxDim :
    /\ blast' = [blast EXCEPT !.op = "reduce", !.w = w, !.h = h,
                              !.requested = blur_iterations,
                              !.iterations = KawaseIterations(w, h, blur_iterations)]
    /\ UNCHANGED <<blur_method, blur_iterations, blur_cache, fbos, optVars,
                   paintVars, gl_enabled, sessVars, bindVars, cfgVars,
                   lifeVars, drawVars>>

\* No blur call has been made.
NoBlurLast == BlurLast("none", 0, 0, FALSE, {}, Blur(EmptyCache, {}, {}, {}))

\* No blur is configured.
InitBlurIdle ==
  /\ blur_method = "BLRMTHD_NONE"
  /\ blur_iterations = 0
  /\ blur_cache = EmptyCache
  /\ fbos = {}
  /\ blast = [NoBlurLast EXCEPT !.requested = 0]

(***************************************************************************)
(* glx_init_conv_blur: the fragment shader built from a kernel             *)
(***************************************************************************)
\* Kernel entries are xcb_render_fixed_t, 16.16 fixed point: XFixedOne is
\* the entry for 1.0. XFIXED_TO_DOUBLE(f) is f / 65536, exact in a double;
\* the model keeps such doubles as their count of 65536ths.
XFixedOne == 65536

\* int wid = XFIXED_TO_DOUBLE(kern[0]): the conversion to int truncates
FixedToInt(f) == f \div XFixedOne

\* The number of decimal digits of q, 0 for 0.
RECURSIVE Digits(_)
Digits(q) == IF q = 0 THEN 0 ELSE 1 + Digits(q \div 10)

\* The digits printf("%.7g") produces after the decimal point for the
\* remainder r of a division by 65536, until seven significant digits are
\* out or nothing is left: m is the number the digits so far spell, sig
\* the count of significant ones, k the count of those after the point.
\* What is cut off rounds m to nearest, to even on a tie.
RECURSIVE FracDigits(_, _, _, _)
FracDigits(r, m, sig, k) ==
  IF r = 0 THEN [m |-> m, k |-> k, exact |-> TRUE]
  ELSE IF sig >= 7
  THEN [m |-> IF 2 * r > XFixedOne \/ (2 * r = XFixedOne /\ m % 2 = 1)
              THEN m + 1 ELSE m,
        k |-> k, exact |-> FALSE]
  ELSE LET d == (r * 10) \div XFixedOne
       IN  FracDigits((r * 10) % XFixedOne, m * 10 + d,
                      IF sig = 0 /\ d = 0 THEN 0 ELSE sig + 1, k + 1)

\* The constant "%.7g" prints for the double f / 65536, as the number
\* m / 10^k; exact tells that no digit was cut off.
Fmt7g(f) == FracDigits(f % XFixedOne, f \div XFixedOne, Digits(f \div XFixedOne), 0)

\* Mutant: the whole middle row is taken for the center.
IsCenter_Row(j, k, wid, hei) == hei \div 2 = j

\* if (hei / 2 == j && wid / 2 == k) continue;
IsCenter(j, k, wid, hei) == hei \div 2 = j /\ wid \div 2 = k

\* One round of the inner loop on the cell of row j and column k: T holds
\* the terms printed so far and the sum.
AddCell(T, kern, j, k, wid, hei) ==
  LET val == kern[2 + j * wid + k]
  IN  IF IsCenter(j, k, wid, hei) THEN T
      ELSE IF val = 0 THEN T
      ELSE [terms |-> Append(T.terms,
                             [weight |-> Fmt7g(val),
                              dx |-> k - wid \div 2, dy |-> j - hei \div 2]),
            sum |-> T.sum + val]

\* for (j < hei) for (k < wid): the cells in row-major order, n counting
\* the cells gone through
RECURSIVE AddCells(_, _, _, _, _)
AddCells(T, kern, n, wid, hei) ==
  IF n >= wid * hei THEN T
  ELSE AddCells(AddCell(T, kern, n \div wid, n % wid, wid, hei),
                kern, n + 1, wid, hei)

\* "Build shader": the accumulation terms and the constant of the divisor
\* factor_center + float(%.7g) in the text of the fragment shader
BuildShader(kern) ==
  LET wid == FixedToInt(kern[0])
      hei == FixedToInt(kern[1])
      T == AddCells([terms |-> <<>>, sum |-> 0], kern, 0, wid, hei)
  IN  [terms |-> T.terms, divisor |-> Fmt7g(T.sum)]

\* A kernel and what was built from it.
Synth(kern, built, src) == [kern |-> kern, built |-> built, src |-> src]
NoSource == [terms |-> <<>>, divisor |-> Fmt7g(0)]
NoSynth == Synth(<<>>, FALSE, NoSource)

\* The kernels: up to MaxKernCells cells in any width and height, each
\* cell 0 or the weight of the kernel, which is 1.0 or 21845/65536 (a
\* third, as the option parser stores it).
MaxKernCells == 9
KernWeights == {XFixedOne, 21845}
KernSizes ==
  {s \in (1..MaxKernCells) \X (1..MaxKernCells) : s[1] * s[2] <= MaxKernCells}
Kernels ==
  UNION {{[i \in 0..(s[1] * s[2] + 1) |->
             IF i = 0 THEN s[1] * XFixedOne
             ELSE IF i = 1 THEN s[2] * XFixedOne ELSE cells[i - 2]] :
            cells \in [0..(s[1] * s[2] - 1) -> {0, wt}]} :
         s \in KernSizes, wt \in KernWeights}

GlxBuildShader ==
  /\ ~synth.built
  /\ synth' = Synth(synth.kern, TRUE, BuildShader(synth.kern))
  /\ UNCHANGED <<optVars, paintVars, gl_enabled, sessVars, bindVars, cfgVars,
                 lifeVars, blurVars, glstate, dlast>>

(***************************************************************************)
(* Drawing: glx_render and glx_dim_dst                                     *)
(***************************************************************************)
\* The texture units glx_render works with: GL_TEXTURE0 and GL_TEXTURE1.
TexUnits == {0, 1}

\* The GL state the drawing functions toggle, everything off: blending,
\* the color logic op, the enabled texture targets and the bound texture of
\* each unit, the active unit and the program in use; with the trace of a
\* call.
GLOff ==
  [blend |-> FALSE, logic_op |-> FALSE, active |-> 0,
   tex_enabled |-> [u \in TexUnits |-> {}], bound |-> [u \in TexUnits |-> 0],
   prog |-> 0, draw_fb |-> 0, dual |-> FALSE, calls |-> <<>>, ret |-> TRUE]

\* glEnable(GL_BLEND) / glDisable(GL_BLEND)
SetBlend(R, on) ==
  [BCall(R, IF on THEN "glEnable" ELSE "glDisable", "GL_BLEND") EXCEPT
     !.blend = on]

\* glEnable(GL_COLOR_LOGIC_OP) / glDisable(GL_COLOR_LOGIC_OP)
SetLogicOp(R, on) ==
  [BCall(R, IF on THEN "glEnable" ELSE "glDisable", "GL_COLOR_LOGIC_OP") EXCEPT
     !.logic_op = on]

\* glEnable(ptex->target) / glDisable(ptex->target) on the active unit
SetTarget(R, target, on) ==
  [BCall(R, IF on THEN "glEnable" ELSE "glDisable", target) EXCEPT
     !.tex_enabled[R.active] = IF on THEN @ \cup {target} ELSE @ \ {target}]

\* glActiveTexture(GL_TEXTURE0 + u)
ActiveTexture(R, u) == [BCall(R, "glActiveTexture", u) EXCEPT !.active = u]

\* glBindTexture(ptex->target, tex) on the active unit
BindTex(R, tex) == [BCall(R, "glBindTexture", tex) EXCEPT !.bound[R.active] = tex]

\* "Enable blending if needed"
RenderBlend(R, opacity_lt1, argb) ==
  IF opacity_lt1 \/ argb THEN SetBlend(R, TRUE) ELSE R

\* "ARGB texture color negation": the second texture stage
RenderDualSetup(R, pt) ==
  ActiveTexture(
    BindTex(SetTarget(ActiveTexture(ActiveTexture([R EXCEPT !.dual = TRUE], 0), 1),
                      pt.target, TRUE),
            pt.texture),
    0)

\* The fixed-function path or the programmable path
RenderPath(R, pt, argb, neg, prog) ==
  IF prog = 0
  THEN IF ~neg THEN R
       ELSE IF ~R.blend THEN SetLogicOp(R, TRUE)
       ELSE IF argb THEN RenderDualSetup(R, pt)
       ELSE R
  ELSE UseProgram(R, prog)

\* "Bind texture"
RenderBind(R, pt) ==
  IF R.dual
  THEN ActiveTexture(BindTex(ActiveTexture(BindTex(R, pt.texture), 1),
                             pt.texture), 0)
  ELSE BindTex(R, pt.texture)

\* Mutant: the second texture unit is left as the call has set it up.
CleanupDual_Skip(R, pt) == R

\* if (dual_texture) { glActiveTexture(GL_TEXTURE1); glBindTexture(.., 0);
\* glDisable(ptex->target); glActiveTexture(GL_TEXTURE0); }
CleanupDual(R, pt) ==
  IF R.dual
  THEN ActiveTexture(SetTarget(BindTex(ActiveTexture(R, 1), 0),
                               pt.target, FALSE), 0)
  ELSE R

\* "Cleanup"
RenderCleanup(R, pt, prog) ==
  CHOOSE Q \in
    {IF prog # 0 THEN UseProgram(R2, 0) ELSE R2 : R2 \in
      {CleanupDual(R1, pt) : R1 \in
        {SetTarget(SetLogicOp(SetBlend(BindTex(R, 0), FALSE), FALSE),
                   pt.target, FALSE)}}} : TRUE

\* glx_render(ps, ptex, x, y, dx, dy, width, height, z, opacity, argb, neg,
\* reg_tgt, pprogram): has_ptex tells that ptex is not NULL, prog is
\* pprogram->prog, or 0 without a program
glx_render(R, has_ptex, pt, opacity_lt1, argb, neg, prog) ==
  IF ~has_ptex \/ pt.texture = 0
  THEN [R EXCEPT !.ret = FALSE]
  ELSE
    LET argb2 == argb \/ fbconfigs[pt.depth].texture_fmt
                           = "GLX_TEXTURE_FORMAT_RGBA_EXT"
    IN  CHOOSE Q \in
          {RenderCleanup(R4, pt, prog) : R4 \in
            {P_PAINTREG(R3) : R3 \in
              {RenderBind(R2, pt) : R2 \in
                {RenderPath(R1, pt, argb2, neg, prog) : R1 \in
                  {RenderBlend(SetTarget(R, pt.target, TRUE),
                               opacity_lt1, argb2)}}}}} : TRUE

\* The glEnd() that follows P_PAINTREG_END() in glx_dim_dst
DimEnd(R) == BCall(R, "glEnd", 0)

\* glx_dim_dst(ps, dx, dy, width, height, z, factor, reg_tgt)
glx_dim_dst(R) ==
  SetBlend(DimEnd(P_PAINTREG(SetBlend(R, TRUE))), FALSE)

\* The record of a drawing call that started with the GL state entry and
\* left it as R.
DrawLast(op, entry, R) ==
  [op |-> op, ret |-> R.ret, calls |-> R.calls, dual |-> R.dual, entry |-> entry]

\* The GL state without what belongs to one call.
GLState(R) == [R EXCEPT !.calls = <<>>, !.ret = TRUE, !.dual = FALSE]

\* The bindings glx_render is called with: none, one without a texture, and
\* complete ones of depth 24 and 32 with either target.
RenderTextures ==
  {GLX_TEX_DEF}
  \cup {[GLX_TEX_DEF EXCEPT !.texture = 1, !.glpixmap = 1, !.pixmap = 1,
                            !.target = t, !.width = 2, !.height = 2,
                            !.depth = d, !.y_inverted = fbconfigs[d].y_inverted] :
          t \in {"GL_TEXTURE_2D", "GL_TEXTURE_RECTANGLE"}, d \in {24, 32}}

GlxRender ==
  /\ \E has_ptex \in BOOLEAN, pt \in RenderTextures,
        opacity_lt1 \in BOOLEAN, argb \in BOOLEAN, neg \in BOOLEAN,
        prog \in {0, 1} :
       \E R \in {glx_render(glstate, has_ptex, pt, opacity_lt1, argb, neg, prog)} :
         /\ glstate' = GLState(R)
         /\ dlast' = DrawLast("render", glstate, R)
  /\ UNCHANGED <<optVars, paintVars, gl_enabled, sessVars, bindVars, cfgVars,
                 lifeVars, blurVars, synth>>

GlxDimDst ==
  /\ \E R \in {glx_dim_dst(glstate)} :
       /\ glstate' = GLState(R)
       /\ dlast' = DrawLast("dim", glstate, R)
  /\ UNCHANGED <<optVars, paintVars, gl_enabled, sessVars, bindVars, cfgVars,
                 lifeVars, blurVars, synth>>

\* Nothing has been drawn.
InitDrawIdle ==
  /\ glstate = GLOff
  /\ dlast = DrawLast("none", GLOff, GLOff)
  /\ synth = NoSynth

\* A session that is up: GLX found, structure allocated, context current.
InitLifeLive ==
  /\ glx_exists = TRUE
  /\ psglx_set = TRUE
  /\ context = 1
  /\ blur_passes = [i \in PassIdx |-> PassFresh]
  /\ glx_prog_win = ProgMainDef
  /\ contexts = {1}
  /\ shaders = {}
  /\ programs = {}
  /\ crashed = FALSE
  /\ lc_numeric = "C"
  /\ slast = SessLast("none", FALSE, FALSE, CurSess)
  /\ plast = NoProgLast

\* The per-depth table after negotiation: configs for the default depth 24
\* and for depth 32, with any set of texture targets, and no other.
InitFbconfigs ==
  {[d \in Depths |-> IF d = 24 THEN FbCfg(t, "GLX_TEXTURE_FORMAT_RGB_EXT", FALSE)
                     ELSE IF d = 32 THEN FbCfg(t, "GLX_TEXTURE_FORMAT_RGBA_EXT", TRUE)
                     ELSE NullCfg] :
     t \in SUBSET TgtBits}

InitOptions ==
  /\ glx_swap_method \in SwapMethods
  /\ glx_no_stencil \in BOOLEAN

\* No glx_update_fbconfig_bydepth call has been made.
NoOffer == [depth |-> -1, k |-> 0]

\* No FBConfig is looked at.
InitCfgIdle ==
  /\ srv_cfgs = <<>>
  /\ cmp_done = FALSE
  /\ cmp_res = [p \in {} |-> 0]
  /\ offer = NoOffer
  /\ pcur = 0

InitPaintState ==
  /\ all_damage_last = [i \in HistIdx |-> {}]
  /\ preg = {}
  /\ gl_enabled = {}
  /\ paint_done = FALSE
  /\ paint_in = {}
  /\ paint_age = 0
  /\ paint_hist = [i \in HistIdx |-> {}]
  /\ paint_read = {}

InitBindState ==
  /\ pptex_set = FALSE
  /\ ptex = GLX_TEX_DEF
  /\ glxpixmaps = {}
  /\ textures = {}
  /\ teximg = 0
  /\ last = [op |-> "none", pixmap |-> 0, ret |-> TRUE, calls |-> <<>>,
             fb_read |-> -1, depth_used |-> -1, pcfg |-> NullCfg]

\* The damage tracker alone, on a session with the GLX backend.
InitPaint ==
  /\ InitOptions
  /\ InitPaintState
  /\ backend = "BKEND_GLX"
  /\ fbconfigs = [d \in Depths |-> NullCfg]
  /\ has_texture_non_power_of_two = FALSE
  /\ InitBindState
  /\ InitCfgIdle
  /\ InitLifeLive
  /\ InitBlurIdle
  /\ InitDrawIdle

NextPaint == PaintPre

SpecPaint == InitPaint /\ [][NextPaint]_vars

\* One window's binding, on any backend and negotiated table.
InitBind ==
  /\ glx_swap_method = 0
  /\ glx_no_stencil = FALSE
  /\ InitPaintState
  /\ backend \in Backends
  /\ fbconfigs \in InitFbconfigs
  /\ has_texture_non_power_of_two \in BOOLEAN
  /\ InitBindState
  /\ InitCfgIdle
  /\ InitLifeLive
  /\ InitBlurIdle
  /\ InitDrawIdle

NextBind == BindPixmap \/ ReleasePixmap

SpecBind == InitBind /\ [][NextBind]_vars

\* The comparator on three candidates of depth 32 that differ in the
\* compared attributes, and the retained config under offers of them.
RedSizes == {8, 10}
FlagValues == {0, 1}
StencilSizes == {0, 8}
DepthSizes == {0, 24}
\* Candidate number n: one candidate for each choice of the six values.
CmpCand(n) ==
  ServerCfg(0, 32, 8, 32, (n \div 16) % 2, 1,
            IF n \div 32 = 0 THEN 8 ELSE 10,
            (n \div 8) % 2,
            IF (n \div 4) % 2 = 0 THEN 0 ELSE 8,
            IF (n \div 2) % 2 = 0 THEN 0 ELSE 24,
            n % 2, {})
CandNumbers ==
  0..(Cardinality(RedSizes \X FlagValues \X FlagValues \X StencilSizes
                  \X DepthSizes \X FlagValues) - 1)
\* The lists of three candidates, up to the order in the list (the
\* comparator is applied to every pair and any candidate may be offered).
CmpLists ==
  {<<CmpCand(t[1]), CmpCand(t[2]), CmpCand(t[3])>> :
     t \in {u \in CandNumbers \X CandNumbers \X CandNumbers :
              u[1] <= u[2] /\ u[2] <= u[3]}}

\* Pointer k to a glx_fbconfig_t for config k; pointer 0 is NULL.
CfgPtr(cfgs, k) ==
  IF k = 0 THEN NullCfg ELSE FbInfo(cfgs, k, "GLX_TEXTURE_FORMAT_RGBA_EXT")

\* glx_cmp_fbconfig applied to every pair of pointers.
CmpFbconfig ==
  /\ ~cmp_done
  /\ cmp_done' = TRUE
  /\ cmp_res' = [p \in (0..Len(srv_cfgs)) \X (0..Len(srv_cfgs)) |->
                   glx_cmp_fbconfig(srv_cfgs, CfgPtr(srv_cfgs, p[1]),
                                    CfgPtr(srv_cfgs, p[2]))]
  /\ UNCHANGED <<srv_cfgs, offer, pcur, optVars, paintVars, gl_enabled,
                 sessVars, bindVars, lifeVars, blurVars, drawVars>>

\* Depths handed to glx_update_fbconfig_bydepth: below the table, in it,
\* above it.
OfferDepths == {-1, 24, OPENGL_MAX_DEPTH + 1}

UpdateFbconfigByDepth ==
  /\ cmp_done
  /\ \E depth \in OfferDepths, k \in 1..Len(srv_cfgs) :
       fbconfigs' = glx_update_fbconfig_bydepth(srv_cfgs, fbconfigs, depth,
                                                CfgPtr(srv_cfgs, k))
  /\ UNCHANGED <<backend, has_texture_non_power_of_two, cfgVars,
                 optVars, paintVars, gl_enabled, bindVars, lifeVars, blurVars, drawVars>>

InitCmp ==
  /\ glx_swap_method = 0
  /\ glx_no_stencil = FALSE
  /\ InitPaintState
  /\ backend = "BKEND_GLX"
  /\ fbconfigs = [d \in Depths |-> NullCfg]
  /\ has_texture_non_power_of_two = FALSE
  /\ InitBindState
  /\ srv_cfgs \in CmpLists
  /\ cmp_done = FALSE
  /\ cmp_res = [p \in {} |-> 0]
  /\ offer = NoOffer
  /\ pcur = 0
  /\ InitLifeLive
  /\ InitBlurIdle
  /\ InitDrawIdle

NextCmp == CmpFbconfig \/ UpdateFbconfigByDepth

SpecCmp == InitCmp /\ [][NextCmp]_vars

\* The retained config of a depth under offers of two candidates, with
\* the depth and the candidate of each offer on record.
UpdLists ==
  {<<CmpCand(t[1]), CmpCand(t[2])>> :
     t \in {u \in CandNumbers \X CandNumbers : u[1] <= u[2]}}

\* glx_update_fbconfig_bydepth(ps, depth, &fbinfo) for candidate k
OfferByDepth ==
  /\ cmp_done
  /\ \E depth \in OfferDepths, k \in 1..Len(srv_cfgs) :
       /\ fbconfigs' = glx_update_fbconfig_bydepth(srv_cfgs, fbconfigs, depth,
                                                   CfgPtr(srv_cfgs, k))
       /\ offer' = [depth |-> depth, k |-> k]
  /\ UNCHANGED <<backend, has_texture_non_power_of_two, srv_cfgs, cmp_done,
                 cmp_res, pcur, optVars, paintVars, gl_enabled, bindVars,
                 lifeVars, blurVars, drawVars>>

InitUpd ==
  /\ glx_swap_method = 0
  /\ glx_no_stencil = FALSE
  /\ InitPaintState
  /\ backend = "BKEND_GLX"
  /\ fbconfigs = [d \in Depths |-> NullCfg]
  /\ has_texture_non_power_of_two = FALSE
  /\ InitBindState
  /\ srv_cfgs \in UpdLists
  /\ cmp_done = FALSE
  /\ cmp_res = [p \in {} |-> 0]
  /\ offer = NoOffer
  /\ pcur = 0
  /\ InitLifeLive
  /\ InitBlurIdle
  /\ InitDrawIdle

NextUpd == CmpFbconfig \/ OfferByDepth

SpecUpd == InitUpd /\ [][NextUpd]_vars

\* The loop of glx_update_fbconfig, one config of the list at a time, on
\* configs that differ in what the loop looks at: multisampling, buffer
\* and alpha size, the depth of the visual (0: no visual), RGBA and RGB
\* binding, and the query that fails.
BufferSizes == {24, 32, 40}
AlphaSizes == {0, 8}
VisualDepths == {0, 24, 32, 40}
FailingQueries ==
  {{}, {"GLX_SAMPLES"}, {"GLX_BUFFER_SIZE"}, {"GLX_ALPHA_SIZE"},
   {"GLX_BIND_TO_TEXTURE_TARGETS_EXT"}, {"GLX_BIND_TO_TEXTURE_RGBA_EXT"},
   {"GLX_BIND_TO_TEXTURE_RGB_EXT"}}
NegCfgs(samples, fails) ==
  {ServerCfg(sm, size, alpha, vdepth, rgba, rgb, 8, 1, 8, 24, 0, f) :
     sm \in samples, size \in BufferSizes, alpha \in AlphaSizes,
     vdepth \in VisualDepths, rgba \in FlagValues, rgb \in FlagValues,
     f \in fails}
\* One config of any kind, or two that are not multisampled and answer
\* every query.
NegLists ==
  {<<c>> : c \in NegCfgs({0, 4}, FailingQueries)}
  \cup {<<c[1], c[2]>> : c \in NegCfgs({0}, {{}}) \X NegCfgs({0}, {{}})}

\* for (GLXFBConfig *pcur = pfbcfgs; pcur < pfbcfgs + nele; pcur++) { ... }
UpdateFbconfigNext ==
  /\ pcur < Len(srv_cfgs)
  /\ pcur' = pcur + 1
  /\ fbconfigs' = UpdateFbconfigStep(srv_cfgs, fbconfigs, pcur + 1)
  /\ UNCHANGED <<backend, has_texture_non_power_of_two, srv_cfgs, cmp_done,
                 cmp_res, offer, optVars, paintVars, gl_enabled, bindVars,
                 lifeVars, blurVars, drawVars>>

InitNeg ==
  /\ glx_swap_method = 0
  /\ glx_no_stencil = FALSE
  /\ InitPaintState
  /\ backend = "BKEND_GLX"
  /\ fbconfigs = [d \in Depths |-> NullCfg]
  /\ has_texture_non_power_of_two = FALSE
  /\ InitBindState
  /\ srv_cfgs \in NegLists
  /\ cmp_done = FALSE
  /\ cmp_res = [p \in {} |-> 0]
  /\ offer = NoOffer
  /\ pcur = 0
  /\ InitLifeLive
  /\ InitBlurIdle
  /\ InitDrawIdle

NextNeg == UpdateFbconfigNext

SpecNeg == InitNeg /\ [][NextNeg]_vars

\* The passes glx_init_blur has built: n programs for the convolution
\* blur, two for the Kawase blur.
BuiltPasses(n) ==
  [i \in PassIdx |-> IF i < n
                     THEN [PassFresh EXCEPT !.frag_shader = i + 1, !.prog = i + 1]
                     ELSE PassFresh]

\* A session with the blur of a method set up, in each state of the
\* scissor and stencil tests, before the first blur of the window. The
\* convolution blur has the passes glx_init_conv_blur builds, one for each
\* kernel up to MAX_BLUR_PASS; the configured iteration count of the Kawase
\* blur is below MAX_BLUR_PASS.
InitBlur ==
  /\ glx_swap_method = 0
  /\ glx_no_stencil = FALSE
  /\ all_damage_last = [i \in HistIdx |-> {}]
  /\ preg = {}
  /\ gl_enabled \in SUBSET {"GL_SCISSOR_TEST", "GL_STENCIL_TEST"}
  /\ paint_done = FALSE
  /\ paint_in = {}
  /\ paint_age = 0
  /\ paint_hist = [i \in HistIdx |-> {}]
  /\ paint_read = {}
  /\ backend = "BKEND_GLX"
  /\ fbconfigs = [d \in Depths |-> NullCfg]
  /\ has_texture_non_power_of_two \in BOOLEAN
  /\ InitBindState
  /\ InitCfgIdle
  /\ glx_exists = TRUE
  /\ psglx_set = TRUE
  /\ context = 1
  /\ contexts = {1}
  /\ glx_prog_win = ProgMainDef
  /\ crashed = FALSE
  /\ lc_numeric = "C"
  /\ \E n \in 1..NumBlurPass :
       \/ /\ blur_method = "BLRMTHD_CONV"
          /\ blur_iterations = 0
          /\ blur_passes = BuiltPasses(n)
          /\ shaders = 1..n
          /\ programs = 1..n
       \/ /\ n < NumBlurPass
          /\ blur_method = "BLRMTHD_KAWASE"
          /\ blur_iterations = n
          /\ blur_passes = BuiltPasses(2)
          /\ shaders = 1..2
          /\ programs = 1..2
  /\ slast = SessLast("none", FALSE, FALSE, CurSess)
  /\ plast = NoProgLast
  /\ blur_cache = EmptyCache
  /\ fbos = {}
  /\ blast = NoBlurLast
  /\ InitDrawIdle

NextBlur == GlxBlurDst

SpecBlur == InitBlur /\ [][NextBlur]_vars

\* The reduction of the iteration count of the Kawase blur, on rectangles
\* and iteration counts up to the bounds.
InitIter ==
  /\ glx_swap_method = 0
  /\ glx_no_stencil = FALSE
  /\ InitPaintState
  /\ backend = "BKEND_GLX"
  /\ fbconfigs = [d \in Depths |-> NullCfg]
  /\ has_texture_non_power_of_two = FALSE
  /\ InitBindState
  /\ InitCfgIdle
  /\ InitLifeLive
  /\ blur_method = "BLRMTHD_KAWASE"
  /\ blur_iterations \in 1..MaxIter
  /\ blur_cache = EmptyCache
  /\ fbos = {}
  /\ blast = NoBlurLast
  /\ InitDrawIdle

NextIter == KawaseReduce

SpecIter == InitIter /\ [][NextIter]_vars

\* Drawing calls on a session that is up, with the negotiated configs.
InitDraw ==
  /\ glx_swap_method = 0
  /\ glx_no_stencil = FALSE
  /\ InitPaintState
  /\ backend = "BKEND_GLX"
  /\ fbconfigs \in InitFbconfigs
  /\ has_texture_non_power_of_two \in BOOLEAN
  /\ InitBindState
  /\ InitCfgIdle
  /\ InitLifeLive
  /\ InitBlurIdle
  /\ InitDrawIdle

NextDraw == GlxRender \/ GlxDimDst

SpecDraw == InitDraw /\ [][NextDraw]_vars

\* The lifecycle of a session of the program, from before the first
\* glx_init: the server offers no usable FBConfig, one for the default
\* depth, one for depth 32, or both.
Cfg24 == ServerCfg(0, 24, 0, 24, 0, 1, 8, 1, 8, 24, 0, {})
Cfg32 == ServerCfg(0, 32, 8, 32, 1, 1, 8, 1, 8, 24, 0, {})
SessCfgLists == {<<>>, <<Cfg24>>, <<Cfg32>>, <<Cfg24, Cfg32>>}

InitSess ==
  /\ glx_swap_method \in {0, CGLX_MAX_BUFFER_AGE + 1}
  /\ glx_no_stencil \in BOOLEAN
  /\ InitPaintState
  /\ backend = "BKEND_GLX"
  /\ fbconfigs = NoTable
  /\ has_texture_non_power_of_two = FALSE
  /\ InitBindState
  /\ srv_cfgs \in SessCfgLists
  /\ cmp_done = FALSE
  /\ cmp_res = [p \in {} |-> 0]
  /\ offer = NoOffer
  /\ pcur = 0
  /\ glx_exists = FALSE
  /\ psglx_set = FALSE
  /\ context = 0
  /\ blur_passes = NoPasses
  /\ glx_prog_win = ProgMainDef
  /\ contexts = {}
  /\ shaders = {}
  /\ programs = {}
  /\ crashed = FALSE
  /\ lc_numeric = "C"
  /\ slast = SessLast("none", FALSE, FALSE, CurSess)
  /\ plast = NoProgLast
  /\ InitBlurIdle
  /\ InitDrawIdle

NextSess ==
  GlxInit \/ GlxDestroy \/ GlxReinit \/ GlxInitBlur \/ GlxLoadProgMain

SpecSess == InitSess /\ [][NextSess]_vars

\* The shader of one pass is built from a kernel of the configuration.
InitKern ==
  /\ glx_swap_method = 0
  /\ glx_no_stencil = FALSE
  /\ InitPaintState
  /\ backend = "BKEND_GLX"
  /\ fbconfigs \in {t \in InitFbconfigs : t[24].texture_tgts = TgtBits}
  /\ has_texture_non_power_of_two = TRUE
  /\ InitBindState
  /\ InitCfgIdle
  /\ InitLifeLive
  /\ InitBlurIdle
  /\ glstate = GLOff
  /\ dlast = DrawLast("none", GLOff, GLOff)
  /\ \E kern \in Kernels : synth = Synth(kern, FALSE, NoSource)

NextKern == GlxBuildShader

SpecKern == InitKern /\ [][NextKern]_vars

\* Shader and program creation on a session that is up.
InitProg ==
  /\ glx_swap_method = 0
  /\ glx_no_stencil = FALSE
  /\ InitPaintState
  /\ backend = "BKEND_GLX"
  /\ fbconfigs \in InitFbconfigs
  /\ has_texture_non_power_of_two = TRUE
  /\ InitBindState
  /\ InitCfgIdle
  /\ InitLifeLive
  /\ InitBlurIdle
  /\ InitDrawIdle

NextProg == GlxCreateShader \/ GlxCreateProgram \/ GlxCreateProgramFromStr

SpecProg == InitProg /\ [][NextProg]_vars

\* The LC_NUMERIC locales of the process: "C", and one with a decimal comma.
Locales == {"C", "de_DE.UTF-8"}

\* A session that is up with nothing built yet, under either locale.
InitLoc ==
  /\ glx_swap_method = 0
  /\ glx_no_stencil = FALSE
  /\ InitPaintState
  /\ backend = "BKEND_GLX"
  /\ fbconfigs \in InitFbconfigs
  /\ has_texture_non_power_of_two = TRUE
  /\ InitBindState
  /\ InitCfgIdle
  /\ glx_exists = TRUE
  /\ psglx_set = TRUE
  /\ context = 1
  /\ blur_passes = [i \in PassIdx |-> PassFresh]
  /\ glx_prog_win = ProgMainDef
  /\ contexts = {1}
  /\ shaders = {}
  /\ programs = {}
  /\ crashed = FALSE
  /\ lc_numeric \in Locales
  /\ slast = SessLast("none", FALSE, FALSE, CurSess)
  /\ plast = NoProgLast
  /\ InitBlurIdle
  /\ InitDrawIdle

NextLoc == GlxInitBlur \/ GlxLoadProgMain \/ GlxDestroy

SpecLoc == InitLoc /\ [][NextLoc]_vars

(***************************************************************************)
(* Claims about glx_paint_pre (checked under SpecPaint).                   *)
(***************************************************************************)
\* The union of the n most recent history entries as they stood on entry.
RecentDamage(n) == UNION {paint_hist[i] : i \in {j \in HistIdx : j < n}}

\* C1: with a reported buffer age k, 1 <= k <= CGLX_MAX_BUFFER_AGE, the paint
\* region is the input region united with the k-1 most recent history
\* entries as they stood before the call, and exactly those entries are read.
C1_AgeUnion ==
  (paint_done /\ paint_age >= 1 /\ paint_age <= CGLX_MAX_BUFFER_AGE)
    => /\ preg = paint_in \cup RecentDamage(paint_age - 1)
       /\ paint_read = {i \in HistIdx : i < paint_age - 1}

\* A call with age 3 and no damage of its own whose region is made of the
\* two most recent entries, the second one not empty, while the third entry
\* holds a pixel that stayed out of the paint region.
C1_Witness ==
  /\ paint_done /\ paint_age = 3
  /\ paint_hist[1] # {}
  /\ paint_in = {}
  /\ preg = paint_hist[0] \cup paint_hist[1]
  /\ paint_hist[2] # {} /\ ~(paint_hist[2] \subseteq preg)

\* C2: with buffer age 0 (reported as 0, or not queried by the swap method)
\* the paint region is the whole screen, whatever the input and the history.
C2_AgeZeroFullScreen ==
  (paint_done /\ paint_age = 0) => preg = screen_reg

\* Age 0 reported under SWAPM_BUFFER_AGE with a small input and damage in
\* the history.
C2_Witness ==
  /\ paint_done /\ paint_age = 0 /\ glx_swap_method = SWAPM_BUFFER_AGE
  /\ paint_in # screen_reg /\ paint_hist[0] # {}
  /\ preg = screen_reg

\* C3 as stated: every age above CGLX_MAX_BUFFER_AGE is handled as age 0
\* (full screen, no history entry read).
C3_AboveLengthIsZero ==
  (paint_done /\ paint_age > CGLX_MAX_BUFFER_AGE)
    => (preg = screen_reg /\ paint_read = {})

\* C3 amended: every age above CGLX_MAX_BUFFER_AGE + 1 is handled as age 0;
\* age CGLX_MAX_BUFFER_AGE + 1 is still served from the history, uniting the
\* input with all CGLX_MAX_BUFFER_AGE entries.
C3_AboveLengthPlusOneIsZero ==
  /\ (paint_done /\ paint_age > CGLX_MAX_BUFFER_AGE + 1)
       => (preg = screen_reg /\ paint_read = {})
  /\ (paint_done /\ paint_age = CGLX_MAX_BUFFER_AGE + 1)
       => /\ preg = paint_in \cup RecentDamage(CGLX_MAX_BUFFER_AGE)
          /\ paint_read = HistIdx

\* An age of CGLX_MAX_BUFFER_AGE + 2 reported with damage in the history.
C3_Witness ==
  /\ paint_done /\ paint_age = CGLX_MAX_BUFFER_AGE + 2
  /\ paint_in # screen_reg /\ paint_hist[0] # {}
  /\ preg = screen_reg

\* C4: the history keeps its length; with swap-damage tracking on, a call
\* shifts the entries by one, drops the oldest and stores the call's own
\* input damage at index 0; with tracking off the history is unchanged.
C4_HistoryShift ==
  /\ DOMAIN all_damage_last = HistIdx
  /\ paint_done =>
       IF glx_swap_method < 0 \/ glx_swap_method > 1
       THEN /\ all_damage_last[0] = paint_in
            /\ \A i \in HistIdx \ {0} : all_damage_last[i] = paint_hist[i - 1]
       ELSE all_damage_last = paint_hist

\* A call, made when the history was full of damage, whose paint region is
\* larger than its input: the input alone went to index 0 and the oldest
\* entry was dropped.
C4_Witness ==
  /\ paint_done /\ glx_swap_method > 1
  /\ \A i \in HistIdx : paint_hist[i] # {}
  /\ paint_hist[CGLX_MAX_BUFFER_AGE - 1] # paint_hist[CGLX_MAX_BUFFER_AGE - 2]
  /\ preg # paint_in
  /\ all_damage_last[0] = paint_in
  /\ all_damage_last[CGLX_MAX_BUFFER_AGE - 1] = paint_hist[CGLX_MAX_BUFFER_AGE - 2]

(***************************************************************************)
(* Claims about glx_bind_pixmap and glx_release_pixmap (under SpecBind).   *)
(***************************************************************************)
GlxBackend == backend = "BKEND_GLX" \/ backend = "BKEND_XR_GLX_HYBRID"

\* Call i of the trace c is the call name(arg).
IsCall(c, i, name, arg) == i \in 1..Len(c) /\ c[i][1] = name /\ c[i][2] = arg
\* The trace c holds a call of this name.
Issues(c, name) == \E i \in 1..Len(c) : c[i][1] = name

\* The trace of a call that only refreshes the tex-image binding.
RefreshOnly(c, pt) ==
  /\ Len(c) = 6
  /\ IsCall(c, 1, "glEnable", pt.target)
  /\ IsCall(c, 2, "glBindTexture", pt.texture)
  /\ IsCall(c, 3, "glXReleaseTexImageProc", pt.glpixmap)
  /\ IsCall(c, 4, "glXBindTexImageProc", pt.glpixmap)
  /\ IsCall(c, 5, "glBindTexture", 0)
  /\ IsCall(c, 6, "glDisable", pt.target)

\* C5: a glx_bind_pixmap call on a complete binding (GLX pixmap and texture
\* present) with the pixmap id the binding records creates no GLX pixmap and
\* no texture: the binding and the live objects keep their values, and the
\* call only releases and re-binds the tex image. The geometry arguments are
\* not consulted on this path.
C5_RebindIdempotent ==
  [][(/\ last'.op = "bind" /\ GlxBackend
      /\ pptex_set /\ ptex.glpixmap # 0 /\ ptex.texture # 0
      /\ last'.pixmap = ptex.pixmap)
     => /\ last'.ret
        /\ ptex' = ptex
        /\ glxpixmaps' = glxpixmaps
        /\ textures' = textures
        /\ teximg' = ptex.glpixmap
        /\ RefreshOnly(last'.calls, ptex)]_vars

\* A successful bind that issued the refresh-only trace for the pixmap the
\* binding holds.
C5_Witness ==
  /\ last.op = "bind" /\ last.ret /\ GlxBackend
  /\ last.pixmap = ptex.pixmap
  /\ ptex.glpixmap # 0 /\ ptex.texture # 0
  /\ <<ptex.glpixmap, ptex.pixmap>> \in glxpixmaps
  /\ RefreshOnly(last.calls, ptex)

\* C6 as stated: a failing glx_bind_pixmap leaves no half-created binding,
\* what it had created has gone through the release path: no GLX pixmap is
\* held by the binding or left alive, and no texture target is left enabled.
C6_FailureTornDown ==
  (last.op = "bind" /\ ~last.ret)
    => (ptex.glpixmap = 0 /\ glxpixmaps = {} /\ gl_enabled = {})

C9_DepthAboveMaxFails ==
  (last.op = "bind" /\ last.depth_used > OPENGL_MAX_DEPTH)
    => (~last.ret /\ last.fb_read = -1)

\* The GL target of the order C10 states: 2D if advertised and usable,
\* rectangle in every other case.
C10_StatedTarget(tgts, npot) ==
  IF "GLX_TEXTURE_2D_BIT_EXT" \in tgts /\ npot
  THEN "GL_TEXTURE_2D"
  ELSE "GL_TEXTURE_RECTANGLE"

\* C10 as stated: the target of a newly created GLX pixmap is the 2D target
\* if the config advertises it and the context supports non-power-of-two
\* textures, and the rectangle target otherwise.
C10_TargetOrderStated ==
  (last.op = "bind" /\ Issues(last.calls, "glXCreatePixmap"))
    => ptex.target =
         C10_StatedTarget(last.pcfg.texture_tgts, has_texture_non_power_of_two)

\* C10 amended: 2D if advertised and non-power-of-two textures are
\* supported; otherwise rectangle if advertised; otherwise rectangle if the
\* 2D target is not advertised either; otherwise (2D is the only advertised
\* target and non-power-of-two textures are not supported) 2D.
C10_TargetOrder ==
  (last.op = "bind" /\ Issues(last.calls, "glXCreatePixmap"))
    => LET tgts == last.pcfg.texture_tgts
           has2d == "GLX_TEXTURE_2D_BIT_EXT" \in tgts
           hasrect == "GLX_TEXTURE_RECTANGLE_BIT_EXT" \in tgts
       IN  /\ (has2d /\ has_texture_non_power_of_two)
                => ptex.target = "GL_TEXTURE_2D"
           /\ (~(has2d /\ has_texture_non_power_of_two) /\ hasrect)
                => ptex.target = "GL_TEXTURE_RECTANGLE"
           /\ (~has2d /\ ~hasrect)
                => ptex.target = "GL_TEXTURE_RECTANGLE"
           /\ (has2d /\ ~has_texture_non_power_of_two /\ ~hasrect)
                => ptex.target = "GL_TEXTURE_2D"

\* A GLX pixmap created from a config that advertises the 2D target alone
\* on a context without non-power-of-two textures.
C10_Witness ==
  /\ last.op = "bind" /\ last.ret /\ Issues(last.calls, "glXCreatePixmap")
  /\ last.pcfg.texture_tgts = {"GLX_TEXTURE_2D_BIT_EXT"}
  /\ ~has_texture_non_power_of_two
  /\ ptex.target = "GL_TEXTURE_2D"

\* C11: glx_release_pixmap releases the tex image exactly when the binding
\* holds both a GLX pixmap and a texture; it destroys the GLX pixmap the
\* binding holds, which is then no longer alive, and zeroes the handle; the
\* texture handle and the live textures are what they were (no texture is
\* deleted); a release that follows a release issues no call and changes
\* neither the binding nor the live objects.
C11_ReleaseEffect ==
  [][(last'.op = "release")
     => /\ Issues(last'.calls, "glXReleaseTexImageProc")
             <=> (ptex.glpixmap # 0 /\ ptex.texture # 0)
        /\ ptex.glpixmap # 0
             => /\ IsCall(last'.calls, Len(last'.calls),
                          "glXDestroyPixmap", ptex.glpixmap)
                /\ \A g \in glxpixmaps' : g[1] # ptex.glpixmap
        /\ ptex.glpixmap = 0 => last'.calls = <<>>
        /\ ptex'.glpixmap = 0
        /\ ptex'.texture = ptex.texture
        /\ textures' = textures
        /\ ~Issues(last'.calls, "glDeleteTextures")
        /\ last.op = "release"
             => /\ last'.calls = <<>>
                /\ ptex' = ptex
                /\ glxpixmaps' = glxpixmaps
                /\ teximg' = teximg]_vars

\* A release of a complete binding: the tex image was released, then the
\* GLX pixmap destroyed, and the texture is still alive and held.
C11_Witness ==
  /\ last.op = "release" /\ Len(last.calls) = 4
  /\ last.calls[2][1] = "glXReleaseTexImageProc"
  /\ last.calls[4][1] = "glXDestroyPixmap"
  /\ ptex.glpixmap = 0 /\ teximg = 0
  /\ ptex.texture # 0 /\ ptex.texture \in textures

(***************************************************************************)
(* Claims about glx_cmp_fbconfig (checked under SpecCmp).                  *)
(***************************************************************************)
\* Candidate x outranks candidate y: glx_cmp_fbconfig(y, x) < 0.
Outranks(x, y) == cmp_res[<<y, x>>] < 0
CandIdx == 1..Len(srv_cfgs)
RedSize(k) == Attrib(srv_cfgs, k, "GLX_RED_SIZE")

\* C19 as stated: glx_cmp_fbconfig is a strict weak ordering over the
\* candidates: no candidate outranks itself, no two candidates outrank
\* each other, and outranking is transitive.
C19_StrictWeakOrder ==
  cmp_done =>
    /\ \A x \in CandIdx : ~Outranks(x, x)
    /\ \A x, y \in CandIdx : ~(Outranks(x, y) /\ Outranks(y, x))
    /\ \A x, y, z \in CandIdx :
         (Outranks(x, y) /\ Outranks(y, z)) => Outranks(x, z)

\* C20: a candidate whose red size is not 8 never outranks one whose red
\* size is 8, and a retained config with red size 8 is never replaced by
\* an offered candidate whose red size is not 8.
C20_Non8NeverOutranks8 ==
  [][/\ cmp_done' =>
          \A x, y \in CandIdx :
            (RedSize(x) # 8 /\ RedSize(y) = 8) => ~(cmp_res'[<<y, x>>] < 0)
     /\ \A d \in Depths :
          (fbconfigs[d].cfg # 0 /\ RedSize(fbconfigs[d].cfg) = 8)
            => (fbconfigs'[d].cfg # 0 /\ RedSize(fbconfigs'[d].cfg) = 8)]_vars

\* A config with red size 8 is retained, and a candidate with red size 10
\* that differs from it in RGBA binding is ranked below it.
C20_Witness ==
  /\ cmp_done
  /\ fbconfigs[24].cfg # 0 /\ RedSize(fbconfigs[24].cfg) = 8
  /\ \E x \in CandIdx :
       /\ RedSize(x) # 8
       /\ cmp_res[<<fbconfigs[24].cfg, x>>] = 1
       /\ Attrib(srv_cfgs, x, "GLX_BIND_TO_TEXTURE_RGBA_EXT")
            # Attrib(srv_cfgs, fbconfigs[24].cfg, "GLX_BIND_TO_TEXTURE_RGBA_EXT")

\* ---------------------------------------------------------------------
\* Claims about the session lifecycle (checked under SpecSess)
\* ---------------------------------------------------------------------

\* Nothing of the session is left: no structure, no context, no config.
TornDown ==
  /\ ~psglx_set
  /\ context = 0
  /\ contexts = {}
  /\ fbconfigs = NoTable

\* The last call was a glx_init, alone or as part of glx_reinit.
RanInit == slast.op \in {"init", "reinit"}

\* C12: whenever glx_init returns failure, whatever step failed, whatever
\* need_render was and whether or not a session was live before the call,
\* no session structure, no context and no per-depth config is left.
C12_FailedInitTornDown ==
  (slast.op = "init" /\ slast.returned /\ ~slast.ret) => TornDown

\* A glx_init that failed on a session that was live: the structure was
\* not allocated by this call, and its context and the structure are freed.
C12_Witness ==
  /\ slast.op = "init" /\ slast.returned /\ ~slast.ret
  /\ ~Issues(slast.calls, "cmalloc_psglx")
  /\ Issues(slast.calls, "glXDestroyContext")
  /\ Issues(slast.calls, "free_psglx")
  /\ TornDown

\* C13: no lifecycle call releases a context, program or shader that is
\* not alive, and a glx_destroy of a session without structure (never
\* initialized, or destroyed just before) makes no call and changes nothing.
C13_DestroySafe ==
  [][/\ ~slast'.bad
     /\ (slast'.op = "destroy" /\ (slast.op = "destroy" \/ ~psglx_set))
          => /\ slast'.calls = <<>>
             /\ slast'.ret
             /\ UNCHANGED <<glx_exists, psglx_set, context, fbconfigs,
                            has_texture_non_power_of_two, blur_passes,
                            glx_prog_win, contexts, shaders, programs,
                            gl_enabled, crashed>>]_vars

\* A second glx_destroy in a row, after sessions have been built.
C13_Witness ==
  /\ slast.op = "destroy" /\ slast.after_destroy
  /\ slast.calls = <<>>
  /\ glx_exists /\ ~psglx_set

\* The session before the first glx_init, with GLX found already or not.
FirstSess(exists) ==
  Sess(exists, FALSE, 0, NoTable, FALSE, NoPasses, ProgMainDef, {}, {}, {},
       gl_enabled)

\* The answers a first glx_init may get.
FirstEnvs ==
  {InitEnv(f, FreshName({}), npot, traps, TRUE) :
     f \in InitFailures, npot \in BOOLEAN, traps \in BOOLEAN}

\* The session and the result of the last call are those of F.
SameSession(F) ==
  /\ glx_exists = F.glx_exists
  /\ psglx_set = F.psglx_set
  /\ context = F.context
  /\ fbconfigs = F.fbconfigs
  /\ has_texture_non_power_of_two = F.npot
  /\ blur_passes = F.blur_passes
  /\ glx_prog_win = F.prog_win
  /\ contexts = F.contexts
  /\ shaders = F.shaders
  /\ programs = F.programs
  /\ gl_enabled = F.enabled
  /\ crashed = F.crashed
  /\ slast.ret = F.ok
  /\ slast.fail = F.fail

\* C14: after glx_destroy followed by glx_init the session is the one a
\* first glx_init with the same need_render gives: no context, shader or
\* program but the new context exists, the passes hold no handle and their
\* three convolution uniform locations are -1, the main program is 0 with
\* its uniform locations -1.
C14_InitAfterDestroyIsFirstInit ==
  (slast.op = "init" /\ slast.after_destroy) =>
    /\ \E exists \in BOOLEAN, e \in FirstEnvs :
         SameSession(glx_init(FirstSess(exists), slast.need_render, e))
    /\ shaders = {} /\ programs = {}
    /\ contexts = IF context = 0 THEN {} ELSE {context}
    /\ glx_prog_win.prog = 0
    /\ glx_prog_win.unifm_opacity = -1
    /\ glx_prog_win.unifm_invert_color = -1
    /\ glx_prog_win.unifm_tex = -1
    /\ \A i \in PassIdx :
         /\ blur_passes[i].frag_shader = 0 /\ blur_passes[i].prog = 0
         /\ psglx_set => /\ blur_passes[i].unifm_factor_center = -1
                         /\ blur_passes[i].unifm_offset_x = -1
                         /\ blur_passes[i].unifm_offset_y = -1

\* A glx_init right after a glx_destroy that built a rendering session.
C14_Witness ==
  /\ slast.op = "init" /\ slast.after_destroy
  /\ slast.need_render /\ slast.ret
  /\ psglx_set /\ context # 0 /\ fbconfigs[ps_depth].cfg # 0

\* C15: at most one GLX context is alive, and it is the one the session
\* holds; within a call a context is created only after the one before it
\* was destroyed, and no context that is not alive is destroyed.
C15_OneContext ==
  /\ Cardinality(contexts) <= 1
  /\ contexts = IF context = 0 THEN {} ELSE {context}
  /\ ~slast.bad
  /\ \A i, j \in 1..Len(slast.calls) :
       (i < j /\ slast.calls[i][1] = "glXCreateContext"
              /\ slast.calls[j][1] = "glXCreateContext")
         => \E k \in (i + 1)..(j - 1) : slast.calls[k][1] = "glXDestroyContext"
  /\ \A i, j \in 1..Len(slast.calls) :
       (i < j /\ slast.calls[i][1] = "glXDestroyContext"
              /\ slast.calls[j][1] = "glXDestroyContext")
         => \E k \in (i + 1)..(j - 1) : slast.calls[k][1] = "glXCreateContext"

\* A glx_reinit that destroyed the live context and created the next one.
C15_Witness ==
  /\ slast.op = "reinit" /\ slast.ret
  /\ \E i, j \in 1..Len(slast.calls) :
       /\ i < j
       /\ slast.calls[i][1] = "glXDestroyContext"
       /\ slast.calls[j][1] = "glXCreateContext"
  /\ context # 0 /\ contexts = {context}

\* The place of the one call of this name in the trace, 0 if there is
\* none or more than one.
PlaceOf(c, name) ==
  IF Cardinality({i \in 1..Len(c) : c[i][1] = name}) = 1
  THEN CHOOSE i \in 1..Len(c) : c[i][1] = name
  ELSE 0

\* C16: glx_reinit calls vsync_deinit, glx_destroy, glx_init and vsync_init
\* in this order; the structure and the context are released between
\* glx_destroy and glx_init and built after glx_init; it returns success
\* only when the session is up and vsync_init was called and succeeded;
\* vsync_init is not called when glx_init failed.
C16_ReinitOrder ==
  (slast.op = "reinit" /\ slast.returned) =>
    LET c == slast.calls
        d == PlaceOf(c, "glx_destroy")
        n == PlaceOf(c, "glx_init")
        v == PlaceOf(c, "vsync_init")
    IN  /\ PlaceOf(c, "vsync_deinit") = 1
        /\ d = 2
        /\ n > d
        /\ \A i \in 1..Len(c) :
             c[i][1] \in {"cmalloc_psglx", "glXCreateContext"} => i > n
        /\ \A i \in (d + 1)..(n - 1) :
             c[i][1] \in {"glDeleteShader", "glDeleteProgram", "free_fbconfig",
                          "glXDestroyContext", "free_psglx"}
        /\ Issues(c, "vsync_init") => v = Len(c) /\ v > n
        /\ Issues(c, "vsync_init") => psglx_set /\ context # 0
        /\ slast.fail \notin {"none", "vsync_init"} => ~Issues(c, "vsync_init")
        /\ slast.ret <=> (Issues(c, "vsync_init") /\ slast.fail = "none")
        /\ slast.ret => /\ psglx_set /\ context # 0
                        /\ Issues(c, "cmalloc_psglx")
                        /\ Issues(c, "glXCreateContext")
        /\ ~slast.ret => (slast.fail = "vsync_init" \/ TornDown)

\* A glx_reinit whose glx_init failed after the old session was released.
C16_Witness ==
  /\ slast.op = "reinit" /\ slast.returned /\ ~slast.ret
  /\ slast.fail \notin {"none", "vsync_init"}
  /\ PlaceOf(slast.calls, "glx_init") > 3
  /\ ~Issues(slast.calls, "vsync_init")

\* What negotiation finds in the configs the server offers.
Negotiated == UpdateFbconfigLoop(srv_cfgs, NoTable, 1)

\* C17: when the server offers no config for the default depth,
\* glx_init(need_render = true) returns failure with the session torn
\* down, and a call that got as far as negotiation failed there.
C17_NoDefaultDepthFails ==
  (RanInit /\ slast.need_render /\ Negotiated[ps_depth].cfg = 0) =>
    /\ slast.returned /\ ~slast.ret
    /\ TornDown
    /\ slast.fail \in (InitFailures \ {"none"}) \cup {"glx_swap_method", "fbconfig"}
    /\ slast.fail = "fbconfig"
         <=> \E i \in 1..Len(slast.calls) :
               IsCall(slast.calls, i, "log_error", ps_depth)

\* A glx_init that failed in negotiation for want of a default-depth config
\* although a config for depth 32 was offered.
C17_Witness ==
  /\ slast.op = "init" /\ slast.need_render
  /\ Negotiated[ps_depth].cfg = 0 /\ Negotiated[32].cfg # 0
  /\ slast.fail = "fbconfig" /\ ~slast.ret
  /\ TornDown

\* C18: when negotiation finds a config for the default depth and none for
\* depth 32, a glx_init(need_render = true) that gets as far as negotiation
\* returns, and returns success.
C18_NoDepth32IsNotFatal ==
  (/\ slast.op = "init" /\ slast.need_render
   /\ Negotiated[ps_depth].cfg # 0 /\ Negotiated[32].cfg = 0
   /\ slast.fail \in {"none", "fbconfig", "NULL"})
    => slast.returned /\ slast.ret

(***************************************************************************)
(* Claims about the choice of the retained config (checked under SpecUpd). *)
(***************************************************************************)
Rgba(k) == Attrib(srv_cfgs, k, "GLX_BIND_TO_TEXTURE_RGBA_EXT")
DoubleBuffer(k) == Attrib(srv_cfgs, k, "GLX_DOUBLEBUFFER")
StencilSize(k) == Attrib(srv_cfgs, k, "GLX_STENCIL_SIZE")
DepthSize(k) == Attrib(srv_cfgs, k, "GLX_DEPTH_SIZE")
Mipmap(k) == Attrib(srv_cfgs, k, "GLX_BIND_TO_MIPMAP_TEXTURE_EXT")

\* The step is an offer of candidate new for a depth of the table at which
\* candidate cur is retained, both with red size 8.
OfferOver(cur, new) ==
  /\ cmp_done
  /\ offer'.depth \in Depths
  /\ new = offer'.k
  /\ cur = fbconfigs[offer'.depth].cfg
  /\ cur # 0
  /\ RedSize(cur) = 8 /\ RedSize(new) = 8

\* What the offer of this step leaves at the depth it was made for.
Replaced(new) == fbconfigs'[offer'.depth].cfg = new
Kept(cur) == fbconfigs'[offer'.depth] = fbconfigs[offer'.depth]

\* C21 as stated: no depth of the table retains a config whose red size is
\* not 8, whatever candidates were offered and in whatever order.
C21_NoRetainedNon8 ==
  \A d \in Depths : fbconfigs[d].cfg # 0 => RedSize(fbconfigs[d].cfg) = 8

\* C22 as stated: of two candidates with red size 8, an offered one with
\* RGBA binding replaces a retained one without, and an offered one without
\* does not replace a retained one with it.
C22_PreferRGBA ==
  [][\A cur, new \in CandIdx :
       OfferOver(cur, new) =>
         /\ (Rgba(new) = 1 /\ Rgba(cur) = 0) => Replaced(new)
         /\ (Rgba(new) = 0 /\ Rgba(cur) = 1) => Kept(cur)]_vars

\* C23 as stated: among candidates tied on red size and RGBA binding the
\* double-buffered one is preferred, then the one with the larger stencil
\* size, then the one with the larger depth size.
C23_PreferDoubleStencilDepth ==
  [][\A cur, new \in CandIdx :
       (OfferOver(cur, new) /\ Rgba(new) = Rgba(cur)) =>
         /\ DoubleBuffer(new) > DoubleBuffer(cur) => Replaced(new)
         /\ DoubleBuffer(new) < DoubleBuffer(cur) => Kept(cur)
         /\ DoubleBuffer(new) = DoubleBuffer(cur) =>
              /\ StencilSize(new) > StencilSize(cur) => Replaced(new)
              /\ StencilSize(new) < StencilSize(cur) => Kept(cur)
              /\ StencilSize(new) = StencilSize(cur) =>
                   /\ DepthSize(new) > DepthSize(cur) => Replaced(new)
                   /\ DepthSize(new) < DepthSize(cur) => Kept(cur)]_vars

\* C24 as stated: among candidates tied on the five earlier attributes, an
\* offered one without mipmap binding replaces a retained one with it, and
\* an offered one with mipmap binding does not replace one without.
C24_PreferNoMipmap ==
  [][\A cur, new \in CandIdx :
       (/\ OfferOver(cur, new)
        /\ Rgba(new) = Rgba(cur)
        /\ DoubleBuffer(new) = DoubleBuffer(cur)
        /\ StencilSize(new) = StencilSize(cur)
        /\ DepthSize(new) = DepthSize(cur)) =>
         /\ (Mipmap(new) = 0 /\ Mipmap(cur) = 1) => Replaced(new)
         /\ (Mipmap(new) = 1 /\ Mipmap(cur) = 0) => Kept(cur)]_vars

\* The two candidates agree on every attribute the comparator looks at.
SameRank(x, y) ==
  /\ RedSize(x) = RedSize(y)
  /\ Rgba(x) = Rgba(y)
  /\ DoubleBuffer(x) = DoubleBuffer(y)
  /\ StencilSize(x) = StencilSize(y)
  /\ DepthSize(x) = DepthSize(y)
  /\ Mipmap(x) = Mipmap(y)

\* C25 as stated: an offer for a depth outside 0..32 changes nothing; an
\* offer for depth d changes at most the entry of d, to the offered
\* candidate, and only when the comparator ranks the offered candidate
\* strictly above the retained one; an equally ranked candidate leaves the
\* retained one in place.
C25_ReplaceOnlyIfStrictlyBetter ==
  [][cmp_done =>
       LET d   == offer'.depth
           new == offer'.k
       IN  IF d \notin Depths THEN fbconfigs' = fbconfigs
           ELSE
             LET cur == fbconfigs[d].cfg
             IN  /\ \A e \in Depths \ {d} : fbconfigs'[e] = fbconfigs[e]
                 /\ fbconfigs'[d].cfg \in {cur, new}
                 /\ (fbconfigs'[d].cfg # cur /\ cur # 0)
                      => (Outranks(new, cur) /\ ~Outranks(cur, new))
                 /\ (cur # 0 /\ SameRank(new, cur)) => Kept(cur)]_vars

(***************************************************************************)
(* Claims about the loop of glx_update_fbconfig (checked under SpecNeg).   *)
(***************************************************************************)
\* Config k answers the query for this binding attribute, with a value
\* other than 0.
Bindable(k, attr) ==
  QueryOk(srv_cfgs, k, attr) /\ Attrib(srv_cfgs, k, attr) # 0

\* C26: every config retained at a depth d either has buffer size minus
\* alpha size equal to the depth of its visual and to d, is RGB-bindable
\* and is recorded with texture format RGB, or has buffer size equal to the
\* depth of its visual and to d, is RGBA-bindable and is recorded with
\* texture format RGBA; a candidate that meets neither is not retained.
C26_AcceptedForDepth ==
  \A d \in Depths :
    LET k == fbconfigs[d].cfg
    IN  k # 0 =>
          LET size  == Attrib(srv_cfgs, k, "GLX_BUFFER_SIZE")
              alpha == Attrib(srv_cfgs, k, "GLX_ALPHA_SIZE")
              vis   == srv_cfgs[k].visualdepth
          IN  /\ k \in 1..pcur
              /\ srv_cfgs[k].visual
              /\ \/ /\ fbconfigs[d].texture_fmt = "GLX_TEXTURE_FORMAT_RGB_EXT"
                    /\ size - alpha = vis /\ vis = d
                    /\ Bindable(k, "GLX_BIND_TO_TEXTURE_RGB_EXT")
                 \/ /\ fbconfigs[d].texture_fmt = "GLX_TEXTURE_FORMAT_RGBA_EXT"
                    /\ size = vis /\ vis = d
                    /\ Bindable(k, "GLX_BIND_TO_TEXTURE_RGBA_EXT")

\* The loop went through two configs: one is retained at depth 24 with
\* format RGB and one at depth 32 with format RGBA.
C26_Witness ==
  /\ pcur = 2
  /\ fbconfigs[24].cfg # 0
  /\ fbconfigs[24].texture_fmt = "GLX_TEXTURE_FORMAT_RGB_EXT"
  /\ fbconfigs[32].cfg # 0
  /\ fbconfigs[32].texture_fmt = "GLX_TEXTURE_FORMAT_RGBA_EXT"

(***************************************************************************)
(* Claims about the blur calls (checked under SpecBlur)                    *)
(***************************************************************************)
Tests == {"GL_SCISSOR_TEST", "GL_STENCIL_TEST"}

\* A blur call has been made and has returned.
BlurReturned == blast.op \in {"BLRMTHD_CONV", "BLRMTHD_KAWASE"} /\ blast.returned

\* C27: when a blur call has returned, with success or with failure, the
\* scissor test and the stencil test are enabled exactly if they were
\* enabled when the call was made.
C27_TestsRestored ==
  BlurReturned => gl_enabled \cap Tests = blast.entry_enabled \cap Tests

\* A blur call made with both tests enabled has disabled them and then
\* failed on a framebuffer attachment.
C27_Witness ==
  /\ BlurReturned
  /\ ~blast.ret
  /\ blast.fail = "attach"
  /\ blast.entry_enabled \cap Tests = Tests
  /\ \E i \in 1..Len(blast.calls) :
       IsCall(blast.calls, i, "glDisable", "GL_SCISSOR_TEST")

\* The draws of the last blur call that went to the back buffer.
BackDraws == {i \in 1..Len(blast.calls) : IsCall(blast.calls, i, "draw", 0)}

\* C28: a blur call that fails has drawn nothing to the back buffer; a
\* draw to the back buffer is the last step of a call that succeeds: no
\* draw and no failing call follows it.
C28_FailedBlurDrawsNothingVisible ==
  BlurReturned =>
    /\ ~blast.ret => BackDraws = {}
    /\ \A i \in BackDraws :
         /\ blast.ret
         /\ \A j \in (i + 1)..Len(blast.calls) :
              blast.calls[j][1] \notin
                {"draw", "glGenTextures", "glGenFramebuffers",
                 "glCheckFramebufferStatus"}

\* A blur call has drawn a pass to its framebuffer and has then failed on
\* the attachment of a later pass.
C28_Witness ==
  /\ BlurReturned
  /\ ~blast.ret
  /\ blast.fail = "attach"
  /\ \E i \in 1..Len(blast.calls) :
       /\ blast.calls[i][1] = "draw"
       /\ \E j \in (i + 1)..Len(blast.calls) :
            blast.calls[j][1] = "glCheckFramebufferStatus"

\* The textures still alive that the last blur call created, and the same
\* for the framebuffers.
TexLeft == blast.tex_new \cap textures
FboLeft == blast.fbo_new \cap fbos

\* C30: every texture and every framebuffer a failed blur call has created
\* is deleted again when the call returns, with the call's own cache and
\* with the cache of the window.
C30_FailedBlurReleasesAll ==
  (BlurReturned /\ ~blast.ret) => TexLeft = {} /\ FboLeft = {}

\* C30, amended: what a failed blur call with its own cache has created is
\* deleted again when the call returns; what a failed blur call with the
\* cache of the window has created is either deleted or held by that
\* cache, for the next blur of the window.
C30_FailedBlurReleasesOwn ==
  (BlurReturned /\ ~blast.ret) =>
    IF blast.own
    THEN TexLeft = {} /\ FboLeft = {}
    ELSE /\ TexLeft \subseteq {blur_cache.textures[i] : i \in PassIdx}
         /\ FboLeft \subseteq {blur_cache.fbo}

\* A blur call with its own cache created a texture and then failed.
C30_Witness ==
  /\ BlurReturned
  /\ ~blast.ret
  /\ blast.own
  /\ blast.tex_new # {}

(***************************************************************************)
(* Claim about the iteration count of the Kawase blur (under SpecIter)     *)
(***************************************************************************)
\* x >> n
RECURSIVE Shr(_, _)
Shr(x, n) == IF n = 0 THEN x ELSE Shr(x \div 2, n - 1)

\* C29: the reduction ends with the largest iteration count i up to the
\* configured one with W >> (i-1) >= 1 and H >> (i-1) >= 1.
C29_LargestFittingIteration ==
  blast.op = "reduce" =>
    /\ blast.iterations \in 1..blast.requested
    /\ Shr(blast.w, blast.iterations - 1) >= 1
    /\ Shr(blast.h, blast.iterations - 1) >= 1
    /\ \A i \in 1..blast.requested :
         (Shr(blast.w, i - 1) >= 1 /\ Shr(blast.h, i - 1) >= 1)
           => i <= blast.iterations

\* The height of the rectangle, not its width, has cut the iteration count.
C29_Witness ==
  /\ blast.op = "reduce"
  /\ blast.iterations < blast.requested
  /\ Shr(blast.w, blast.iterations) >= 1
  /\ Shr(blast.h, blast.iterations) < 1

(***************************************************************************)
(* Further claims about glx_bind_pixmap (checked under SpecBind)           *)
(***************************************************************************)
\* The places of the calls of a name in the trace c.
Places(c, name) == {i \in 1..Len(c) : c[i][1] = name}

\* C34: a successful glx_bind_pixmap binds the tex image exactly once, as
\* glXBindTexImage of the GLX pixmap the binding holds; the call before it
\* is the release of the tex image of that GLX pixmap exactly if the call
\* has created neither a GLX pixmap nor a texture; every release of a tex
\* image the call issues comes before the bind.
C34_ReleaseThenRebind ==
  (last.op = "bind" /\ last.ret /\ GlxBackend) =>
    /\ Cardinality(Places(last.calls, "glXBindTexImageProc")) = 1
    /\ \A b \in Places(last.calls, "glXBindTexImageProc") :
         /\ last.calls[b][2] = ptex.glpixmap
         /\ IsCall(last.calls, b - 1, "glXReleaseTexImageProc", ptex.glpixmap)
              <=> ~(\/ Issues(last.calls, "glXCreatePixmap")
                    \/ Issues(last.calls, "glGenTextures"))
         /\ \A r \in Places(last.calls, "glXReleaseTexImageProc") : r < b

\* A successful bind that created a GLX pixmap after the release of the old
\* one, and bound the tex image without releasing it first.
C34_Witness ==
  /\ last.op = "bind" /\ last.ret /\ GlxBackend
  /\ Issues(last.calls, "glXCreatePixmap")
  /\ Issues(last.calls, "glXReleaseTexImageProc")
  /\ \A b \in Places(last.calls, "glXBindTexImageProc") :
       last.calls[b - 1][1] # "glXReleaseTexImageProc"

\* C37: when glx_bind_pixmap returns success for a pixmap, the binding
\* records that pixmap and holds a GLX pixmap that was created from it.
C37_SuccessBindsRequested ==
  (last.op = "bind" /\ last.ret /\ GlxBackend) =>
    /\ ptex.pixmap = last.pixmap
    /\ <<ptex.glpixmap, last.pixmap>> \in glxpixmaps

(***************************************************************************)
(* Claims about the passes of a blur (checked under SpecBlur)              *)
(***************************************************************************)
\* The steps of the last blur call that read or write a texture or draw.
IsStep(c) ==
  c[1] \in {"glx_copy_region_to_tex", "glBindTexture",
            "glFramebufferTexture2D", "draw"}
Steps == SelectSeq(blast.calls, IsStep)

\* Pass k of the last blur call takes three steps from place PassAt(k) on:
\* the texture it reads is bound, the texture it writes is attached, it
\* draws; the last pass has no attachment.
PassAt(k) == 3 * k
Src(k) == Steps[PassAt(k)][2]
Dst(k) == Steps[PassAt(k) + 1][2]

\* Texture i of the pyramid, as the down-sample passes fill it.
Level(i) == IF i = 0 THEN Steps[2][2] ELSE Dst(i)

\* A Kawase blur that succeeded.
KawaseDone ==
  blast.op = "BLRMTHD_KAWASE" /\ blast.returned /\ blast.ret

\* C35: a Kawase blur with n iterations that succeeds first captures the
\* target into texture 0, then runs n down-sample passes, pass i reading
\* texture i-1 and writing texture i, then n up-sample passes, pass i from
\* n down to 1 reading texture i and writing texture i-1, the last one
\* writing the back buffer; every pass reads the texture the step before it
\* wrote, and no other pass draws to the back buffer.
C35_KawaseOrder ==
  KawaseDone =>
    LET n == blast.iterations
    IN  /\ Len(Steps) = 6 * n + 1
        /\ Steps[1][1] = "glBindTexture"
        /\ Steps[2][1] = "glx_copy_region_to_tex"
        /\ Steps[1][2] = Steps[2][2]
        /\ \A k \in 1..(2 * n - 1) :
             /\ Steps[PassAt(k)][1] = "glBindTexture"
             /\ Steps[PassAt(k) + 1][1] = "glFramebufferTexture2D"
             /\ Steps[PassAt(k) + 2][1] = "draw"
             /\ Steps[PassAt(k) + 2][2] # 0
        /\ Steps[PassAt(2 * n)][1] = "glBindTexture"
        /\ IsCall(Steps, PassAt(2 * n) + 1, "draw", 0)
        /\ \A i \in 0..n : \A j \in 0..n : i # j => Level(i) # Level(j)
        /\ \A i \in 1..n : Src(i) = Level(i - 1)
        /\ \A i \in 1..n : Src(2 * n - i + 1) = Level(i)
        /\ \A i \in 2..n : Dst(2 * n - i + 1) = Level(i - 1)
        /\ \A k \in 2..(2 * n) : Src(k) = Dst(k - 1)

\* A Kawase blur with two iterations has succeeded.
C35_Witness ==
  /\ KawaseDone
  /\ blast.iterations = 2
  /\ Len(Steps) = 13

\* The programs the last blur call has used, in the order of their use.
IsUse(c) == c[1] = "glUseProgram" /\ c[2] # 0
Programs == SelectSeq(blast.calls, IsUse)

\* The number of passes glx_init_conv_blur has built.
Built == Cardinality({i \in PassIdx : blur_passes[i].prog # 0})

\* C36: with any number of built passes from 1 to MAX_BLUR_PASS a
\* convolution blur returns without having read behind blur_passes[], and
\* one that succeeds has run one pass for each built program in the order
\* of the slots, each pass but the last writing the texture the next reads.
C36_OnePassPerProgram ==
  blast.op = "BLRMTHD_CONV" =>
    /\ blast.returned
    /\ ~blast.oob
    /\ blast.ret =>
         /\ Len(Programs) = Built
         /\ \A k \in 1..Len(Programs) :
              Programs[k][2] = blur_passes[k - 1].prog
         /\ Len(Steps) = 3 * Built + 1
         /\ \A k \in 2..Built : Src(k) = Dst(k - 1)

\* C39: when a blur call returns, no program is in use and the default
\* framebuffer is bound.
C39_NoProgramLeftInUse ==
  BlurReturned => (blast.prog = 0 /\ blast.draw_fb = 0)

\* The drawing state of the GL is all off: no blending, no logic op, no
\* target enabled and no texture bound on either unit, unit 0 active and no
\* program in use.
AllOff(R) ==
  /\ ~R.blend
  /\ ~R.logic_op
  /\ \A u \in TexUnits : R.tex_enabled[u] = {} /\ R.bound[u] = 0
  /\ R.active = 0
  /\ R.prog = 0

\* C31: after every glx_render, blending and the color logic op are
\* disabled, no texture target is enabled and no texture is bound on the
\* units the call used, unit 0 is the active unit and no program is in use;
\* a call rejected for a missing texture has made no GL call and leaves the
\* state as it was.
C31_RenderRestoresState ==
  dlast.op = "render" =>
    /\ AllOff(glstate)
    /\ ~dlast.ret => dlast.calls = <<>> /\ glstate = dlast.entry

\* A render that negated an ARGB texture through both texture units, and
\* one with a program.
C31_Witness ==
  /\ dlast.op = "render"
  /\ dlast.ret
  /\ dlast.dual
  /\ Issues(dlast.calls, "glActiveTexture")
  /\ Issues(dlast.calls, "glBegin")

\* The number of calls of that name among the first n of a trace.
RECURSIVE CountCalls(_, _, _)
CountCalls(c, name, n) ==
  IF n = 0 THEN 0
  ELSE CountCalls(c, name, n - 1) + (IF c[n][1] = name THEN 1 ELSE 0)

\* Every glBegin of the trace is closed by one glEnd before the next
\* glBegin and before the end, and no glEnd comes without an open glBegin.
WellBracketed(c) ==
  /\ \A n \in 0..Len(c) :
       CountCalls(c, "glBegin", n) - CountCalls(c, "glEnd", n) \in {0, 1}
  /\ CountCalls(c, "glBegin", Len(c)) = CountCalls(c, "glEnd", Len(c))

\* C40: in glx_render and glx_dim_dst each glBegin is followed by exactly
\* one glEnd before the next glBegin or the return, and no glEnd is issued
\* while no primitive is open.
C40_BeginEndMatched == WellBracketed(dlast.calls)

\* The same for the calls that render.
C40_RenderMatched == dlast.op = "render" => WellBracketed(dlast.calls)

\* The same for the two blur functions.
C40_BlurMatched == WellBracketed(blast.calls)

\* C38: when glx_init_blur returns, the LC_NUMERIC locale of the process
\* is the one it was on entry, also when a shader or a program of a pass
\* could not be built.
C38_LocaleRestored ==
  slast.op = "init_blur" => lc_numeric = slast.lc_entry

\* The same for the calls that succeed or fail before a pass is built.
C38_LocaleRestoredOnSuccess ==
  (slast.op = "init_blur" /\ slast.fail \notin {"shader", "prog"}) =>
    lc_numeric = slast.lc_entry

\* glx_create_shader returns 0 and leaves no new shader alive when the
\* shader cannot be created or compiled.
ShaderErrorPropagated ==
  (plast.op = "create_shader" /\ plast.failed) =>
    (plast.ret = 0 /\ shaders = plast.entry_shaders)

\* glx_create_program returns 0 and leaves no new program alive when the
\* program cannot be created or linked.
ProgramErrorPropagated ==
  (plast.op = "create_program" /\ plast.failed) =>
    (plast.ret = 0 /\ programs = plast.entry_programs)

\* glx_create_program_from_str returns no program when a source it was
\* given did not compile.
FromStrErrorPropagated ==
  (plast.op = "create_program_from_str" /\ plast.src_failed) => plast.ret = 0

\* C32: a compile or link error makes the creation fail: glx_create_shader
\* and glx_create_program return 0 and have deleted the failed object, and
\* glx_create_program_from_str returns no program when a vertex or fragment
\* source it was given failed to compile.
C32_CompileLinkErrorsPropagate ==
  ShaderErrorPropagated /\ ProgramErrorPropagated /\ FromStrErrorPropagated

\* The two functions that build one object propagate the error.
C32_SingleObjectErrors == ShaderErrorPropagated /\ ProgramErrorPropagated

\* The cells of the kernel that get a term: those that are not the center
\* cell (column W/2, row H/2) and whose weight is not 0, as <<row, column>>.
Wid == FixedToInt(synth.kern[0])
Hei == FixedToInt(synth.kern[1])
CellAt(j, k) == synth.kern[2 + j * Wid + k]
TermCells ==
  {c \in (0..(Hei - 1)) \X (0..(Wid - 1)) :
     ~(c[1] = Hei \div 2 /\ c[2] = Wid \div 2) /\ CellAt(c[1], c[2]) # 0}

\* The sum of the weights of a set of cells.
RECURSIVE WeightSum(_)
WeightSum(cs) ==
  IF cs = {} THEN 0
  ELSE LET c == CHOOSE x \in cs : TRUE
       IN  CellAt(c[1], c[2]) + WeightSum(cs \ {c})

\* C33: the shader built from a W x H kernel has exactly one accumulation
\* term for each cell that is not the center cell and has a non-zero
\* weight: the term samples at the offset (column - W/2, row - H/2) and
\* carries the weight of the cell as "%.7g" prints it; the constant of the
\* divisor, to which factor_center is added, is the sum of the weights of
\* exactly those cells, printed the same way.
C33_OneTermPerCell ==
  synth.built =>
    /\ Len(synth.src.terms) = Cardinality(TermCells)
    /\ \A c \in TermCells :
         \E i \in 1..Len(synth.src.terms) :
           /\ synth.src.terms[i].dx = c[2] - Wid \div 2
           /\ synth.src.terms[i].dy = c[1] - Hei \div 2
           /\ synth.src.terms[i].weight = Fmt7g(CellAt(c[1], c[2]))
    /\ synth.src.divisor = Fmt7g(WeightSum(TermCells))

\* The shader of a 3 x 3 kernel whose eight cells around the center are 1:
\* eight terms of weight 1 and the divisor factor_center + 8.
C33_Witness ==
  /\ synth.built
  /\ Wid = 3 /\ Hei = 3
  /\ \A c \in (0..2) \X (0..2) : c # <<1, 1>> => CellAt(c[1], c[2]) = XFixedOne
  /\ Len(synth.src.terms) = 8
  /\ \A i \in 1..8 : synth.src.terms[i].weight = [m |-> 1, k |-> 0, exact |-> TRUE]
  /\ synth.src.divisor = [m |-> 8, k |-> 0, exact |-> TRUE]

\* Every constant in the text is the number it stands for, digit for digit.
C33_WeightsPrintedExactly ==
  synth.built =>
    /\ \A i \in 1..Len(synth.src.terms) : synth.src.terms[i].weight.exact
    /\ synth.src.divisor.exact
====
